---- MODULE Spec2Model ----
(***************************************************************************)
(* Log file analyzer (src/analyzer.py): parse_text_log, read_logs,         *)
(* filter_logs, detect_burst_errors, detect_long_running_issues and main.  *)
(*                                                                         *)
(* Python values are modelled as follows.                                  *)
(*   str       a sequence of characters, <<"a", "b">>; a character is the  *)
(*             one-character string, or the string of its code point,     *)
(*             "U+0663", for a character above U+00FF, for U+0000 and for  *)
(*             U+0060                                                      *)
(*   dict      a record; a missing key is a missing field                  *)
(*   list      a sequence                                                  *)
(*   set       a set                                                       *)
(*   datetime  a record [year, month, day, hour, minute, second,           *)
(*             microsecond, tzinfo], tzinfo = <<>> for a naive value and   *)
(*             for an aware one its utcoffset <<seconds, microseconds>>,   *)
(*             microseconds in 0..999999                                   *)
(*   None      None where a dict is expected, NoneStr where a str is       *)
(***************************************************************************)
EXTENDS Integers, Sequences, FiniteSets, TLC

VARIABLES
    pc,         \* position of the running function
    line,       \* parse_text_log: its argument
    parsed,     \* parse_text_log: its return value
    logs,       \* the list of records a stage works on
    service,    \* filter_logs: its service argument
    host,       \* filter_logs: its host argument
    filtered,   \* filter_logs: its return value
    bursts,     \* detect_burst_errors: its outcome
    issues,     \* detect_long_running_issues: its outcome
    json_path,  \* read_logs: its json_path argument
    log_path,   \* read_logs: its log_path argument
    files,      \* the file system: path -> content, for the paths that exist
    io,         \* the I/O steps performed so far, in order
    loaded,     \* read_logs: its outcome
    written,    \* the report files opened for writing by main, in order
    uncaught    \* the exception that ended main, NoException while there is none

vars == <<pc, line, parsed, logs, service, host, filtered, bursts, issues,
          json_path, log_path, files, io, loaded, written, uncaught>>

None == [NoneType |-> TRUE]
NoneStr == <<"None">>
NoException == "None"

\* Python truthiness of an optional str: None and "" are falsy.
Truthy(s) == s # NoneStr /\ s # <<>>

\* F applied to the value of v: v is evaluated once, as an assignment does
Apply(F(_), v) == CHOOSE r \in {F(x) : x \in {v}} : TRUE

(***************************************************************************)
(* Characters                                                              *)
(***************************************************************************)
\* [0-9]
ASCII_DIGITS == {"0", "1", "2", "3", "4", "5", "6", "7", "8", "9"}

\* The decimal digits above U+00FF (category Nd), in runs of ten from the zero
\* of each script: the k-th character of a run has the value k - 1.
UNICODE_DIGITS ==
    <<
      <<"U+0660", "U+0661", "U+0662", "U+0663", "U+0664", "U+0665", "U+0666", "U+0667", "U+0668", "U+0669">>,
      <<"U+06F0", "U+06F1", "U+06F2", "U+06F3", "U+06F4", "U+06F5", "U+06F6", "U+06F7", "U+06F8", "U+06F9">>,
      <<"U+07C0", "U+07C1", "U+07C2", "U+07C3", "U+07C4", "U+07C5", "U+07C6", "U+07C7", "U+07C8", "U+07C9">>,
      <<"U+0966", "U+0967", "U+0968", "U+0969", "U+096A", "U+096B", "U+096C", "U+096D", "U+096E", "U+096F">>,
      <<"U+09E6", "U+09E7", "U+09E8", "U+09E9", "U+09EA", "U+09EB", "U+09EC", "U+09ED", "U+09EE", "U+09EF">>,
      <<"U+0A66", "U+0A67", "U+0A68", "U+0A69", "U+0A6A", "U+0A6B", "U+0A6C", "U+0A6D", "U+0A6E", "U+0A6F">>,
      <<"U+0AE6", "U+0AE7", "U+0AE8", "U+0AE9", "U+0AEA", "U+0AEB", "U+0AEC", "U+0AED", "U+0AEE", "U+0AEF">>,
      <<"U+0B66", "U+0B67", "U+0B68", "U+0B69", "U+0B6A", "U+0B6B", "U+0B6C", "U+0B6D", "U+0B6E", "U+0B6F">>,
      <<"U+0BE6", "U+0BE7", "U+0BE8", "U+0BE9", "U+0BEA", "U+0BEB", "U+0BEC", "U+0BED", "U+0BEE", "U+0BEF">>,
      <<"U+0C66", "U+0C67", "U+0C68", "U+0C69", "U+0C6A", "U+0C6B", "U+0C6C", "U+0C6D", "U+0C6E", "U+0C6F">>,
      <<"U+0CE6", "U+0CE7", "U+0CE8", "U+0CE9", "U+0CEA", "U+0CEB", "U+0CEC", "U+0CED", "U+0CEE", "U+0CEF">>,
      <<"U+0D66", "U+0D67", "U+0D68", "U+0D69", "U+0D6A", "U+0D6B", "U+0D6C", "U+0D6D", "U+0D6E", "U+0D6F">>,
      <<"U+0DE6", "U+0DE7", "U+0DE8", "U+0DE9", "U+0DEA", "U+0DEB", "U+0DEC", "U+0DED", "U+0DEE", "U+0DEF">>,
      <<"U+0E50", "U+0E51", "U+0E52", "U+0E53", "U+0E54", "U+0E55", "U+0E56", "U+0E57", "U+0E58", "U+0E59">>,
      <<"U+0ED0", "U+0ED1", "U+0ED2", "U+0ED3", "U+0ED4", "U+0ED5", "U+0ED6", "U+0ED7", "U+0ED8", "U+0ED9">>,
      <<"U+0F20", "U+0F21", "U+0F22", "U+0F23", "U+0F24", "U+0F25", "U+0F26", "U+0F27", "U+0F28", "U+0F29">>,
      <<"U+1040", "U+1041", "U+1042", "U+1043", "U+1044", "U+1045", "U+1046", "U+1047", "U+1048", "U+1049">>,
      <<"U+1090", "U+1091", "U+1092", "U+1093", "U+1094", "U+1095", "U+1096", "U+1097", "U+1098", "U+1099">>,
      <<"U+17E0", "U+17E1", "U+17E2", "U+17E3", "U+17E4", "U+17E5", "U+17E6", "U+17E7", "U+17E8", "U+17E9">>,
      <<"U+1810", "U+1811", "U+1812", "U+1813", "U+1814", "U+1815", "U+1816", "U+1817", "U+1818", "U+1819">>,
      <<"U+1946", "U+1947", "U+1948", "U+1949", "U+194A", "U+194B", "U+194C", "U+194D", "U+194E", "U+194F">>,
      <<"U+19D0", "U+19D1", "U+19D2", "U+19D3", "U+19D4", "U+19D5", "U+19D6", "U+19D7", "U+19D8", "U+19D9">>,
      <<"U+1A80", "U+1A81", "U+1A82", "U+1A83", "U+1A84", "U+1A85", "U+1A86", "U+1A87", "U+1A88", "U+1A89">>,
      <<"U+1A90", "U+1A91", "U+1A92", "U+1A93", "U+1A94", "U+1A95", "U+1A96", "U+1A97", "U+1A98", "U+1A99">>,
      <<"U+1B50", "U+1B51", "U+1B52", "U+1B53", "U+1B54", "U+1B55", "U+1B56", "U+1B57", "U+1B58", "U+1B59">>,
      <<"U+1BB0", "U+1BB1", "U+1BB2", "U+1BB3", "U+1BB4", "U+1BB5", "U+1BB6", "U+1BB7", "U+1BB8", "U+1BB9">>,
      <<"U+1C40", "U+1C41", "U+1C42", "U+1C43", "U+1C44", "U+1C45", "U+1C46", "U+1C47", "U+1C48", "U+1C49">>,
      <<"U+1C50", "U+1C51", "U+1C52", "U+1C53", "U+1C54", "U+1C55", "U+1C56", "U+1C57", "U+1C58", "U+1C59">>,
      <<"U+A620", "U+A621", "U+A622", "U+A623", "U+A624", "U+A625", "U+A626", "U+A627", "U+A628", "U+A629">>,
      <<"U+A8D0", "U+A8D1", "U+A8D2", "U+A8D3", "U+A8D4", "U+A8D5", "U+A8D6", "U+A8D7", "U+A8D8", "U+A8D9">>,
      <<"U+A900", "U+A901", "U+A902", "U+A903", "U+A904", "U+A905", "U+A906", "U+A907", "U+A908", "U+A909">>,
      <<"U+A9D0", "U+A9D1", "U+A9D2", "U+A9D3", "U+A9D4", "U+A9D5", "U+A9D6", "U+A9D7", "U+A9D8", "U+A9D9">>,
      <<"U+A9F0", "U+A9F1", "U+A9F2", "U+A9F3", "U+A9F4", "U+A9F5", "U+A9F6", "U+A9F7", "U+A9F8", "U+A9F9">>,
      <<"U+AA50", "U+AA51", "U+AA52", "U+AA53", "U+AA54", "U+AA55", "U+AA56", "U+AA57", "U+AA58", "U+AA59">>,
      <<"U+ABF0", "U+ABF1", "U+ABF2", "U+ABF3", "U+ABF4", "U+ABF5", "U+ABF6", "U+ABF7", "U+ABF8", "U+ABF9">>,
      <<"U+FF10", "U+FF11", "U+FF12", "U+FF13", "U+FF14", "U+FF15", "U+FF16", "U+FF17", "U+FF18", "U+FF19">>,
      <<"U+104A0", "U+104A1", "U+104A2", "U+104A3", "U+104A4", "U+104A5", "U+104A6", "U+104A7", "U+104A8", "U+104A9">>,
      <<"U+10D30", "U+10D31", "U+10D32", "U+10D33", "U+10D34", "U+10D35", "U+10D36", "U+10D37", "U+10D38", "U+10D39">>,
      <<"U+11066", "U+11067", "U+11068", "U+11069", "U+1106A", "U+1106B", "U+1106C", "U+1106D", "U+1106E", "U+1106F">>,
      <<"U+110F0", "U+110F1", "U+110F2", "U+110F3", "U+110F4", "U+110F5", "U+110F6", "U+110F7", "U+110F8", "U+110F9">>,
      <<"U+11136", "U+11137", "U+11138", "U+11139", "U+1113A", "U+1113B", "U+1113C", "U+1113D", "U+1113E", "U+1113F">>,
      <<"U+111D0", "U+111D1", "U+111D2", "U+111D3", "U+111D4", "U+111D5", "U+111D6", "U+111D7", "U+111D8", "U+111D9">>,
      <<"U+112F0", "U+112F1", "U+112F2", "U+112F3", "U+112F4", "U+112F5", "U+112F6", "U+112F7", "U+112F8", "U+112F9">>,
      <<"U+11450", "U+11451", "U+11452", "U+11453", "U+11454", "U+11455", "U+11456", "U+11457", "U+11458", "U+11459">>,
      <<"U+114D0", "U+114D1", "U+114D2", "U+114D3", "U+114D4", "U+114D5", "U+114D6", "U+114D7", "U+114D8", "U+114D9">>,
      <<"U+11650", "U+11651", "U+11652", "U+11653", "U+11654", "U+11655", "U+11656", "U+11657", "U+11658", "U+11659">>,
      <<"U+116C0", "U+116C1", "U+116C2", "U+116C3", "U+116C4", "U+116C5", "U+116C6", "U+116C7", "U+116C8", "U+116C9">>,
      <<"U+11730", "U+11731", "U+11732", "U+11733", "U+11734", "U+11735", "U+11736", "U+11737", "U+11738", "U+11739">>,
      <<"U+118E0", "U+118E1", "U+118E2", "U+118E3", "U+118E4", "U+118E5", "U+118E6", "U+118E7", "U+118E8", "U+118E9">>,
      <<"U+11950", "U+11951", "U+11952", "U+11953", "U+11954", "U+11955", "U+11956", "U+11957", "U+11958", "U+11959">>,
      <<"U+11C50", "U+11C51", "U+11C52", "U+11C53", "U+11C54", "U+11C55", "U+11C56", "U+11C57", "U+11C58", "U+11C59">>,
      <<"U+11D50", "U+11D51", "U+11D52", "U+11D53", "U+11D54", "U+11D55", "U+11D56", "U+11D57", "U+11D58", "U+11D59">>,
      <<"U+11DA0", "U+11DA1", "U+11DA2", "U+11DA3", "U+11DA4", "U+11DA5", "U+11DA6", "U+11DA7", "U+11DA8", "U+11DA9">>,
      <<"U+16A60", "U+16A61", "U+16A62", "U+16A63", "U+16A64", "U+16A65", "U+16A66", "U+16A67", "U+16A68", "U+16A69">>,
      <<"U+16AC0", "U+16AC1", "U+16AC2", "U+16AC3", "U+16AC4", "U+16AC5", "U+16AC6", "U+16AC7", "U+16AC8", "U+16AC9">>,
      <<"U+16B50", "U+16B51", "U+16B52", "U+16B53", "U+16B54", "U+16B55", "U+16B56", "U+16B57", "U+16B58", "U+16B59">>,
      <<"U+1D7CE", "U+1D7CF", "U+1D7D0", "U+1D7D1", "U+1D7D2", "U+1D7D3", "U+1D7D4", "U+1D7D5", "U+1D7D6", "U+1D7D7">>,
      <<"U+1D7D8", "U+1D7D9", "U+1D7DA", "U+1D7DB", "U+1D7DC", "U+1D7DD", "U+1D7DE", "U+1D7DF", "U+1D7E0", "U+1D7E1">>,
      <<"U+1D7E2", "U+1D7E3", "U+1D7E4", "U+1D7E5", "U+1D7E6", "U+1D7E7", "U+1D7E8", "U+1D7E9", "U+1D7EA", "U+1D7EB">>,
      <<"U+1D7EC", "U+1D7ED", "U+1D7EE", "U+1D7EF", "U+1D7F0", "U+1D7F1", "U+1D7F2", "U+1D7F3", "U+1D7F4", "U+1D7F5">>,
      <<"U+1D7F6", "U+1D7F7", "U+1D7F8", "U+1D7F9", "U+1D7FA", "U+1D7FB", "U+1D7FC", "U+1D7FD", "U+1D7FE", "U+1D7FF">>,
      <<"U+1E140", "U+1E141", "U+1E142", "U+1E143", "U+1E144", "U+1E145", "U+1E146", "U+1E147", "U+1E148", "U+1E149">>,
      <<"U+1E2F0", "U+1E2F1", "U+1E2F2", "U+1E2F3", "U+1E2F4", "U+1E2F5", "U+1E2F6", "U+1E2F7", "U+1E2F8", "U+1E2F9">>,
      <<"U+1E950", "U+1E951", "U+1E952", "U+1E953", "U+1E954", "U+1E955", "U+1E956", "U+1E957", "U+1E958", "U+1E959">>,
      <<"U+1FBF0", "U+1FBF1", "U+1FBF2", "U+1FBF3", "U+1FBF4", "U+1FBF5", "U+1FBF6", "U+1FBF7", "U+1FBF8", "U+1FBF9">>
    >>

\* \d in a str pattern: every decimal digit
DIGITS ==
    ASCII_DIGITS \cup
        {UNICODE_DIGITS[r][k] : r \in 1..Len(UNICODE_DIGITS), k \in 1..10}

\* \s in a str pattern, and what str.strip() removes: str.isspace()
WHITESPACE ==
    {"\t", "\n", "", "\f", "\r", "", "", "", "", " ", "", " ",
     "U+1680", "U+2000", "U+2001", "U+2002", "U+2003", "U+2004",
     "U+2005", "U+2006", "U+2007", "U+2008", "U+2009", "U+200A",
     "U+2028", "U+2029", "U+202F", "U+205F", "U+3000"}

\* int(c) of a decimal digit
DigitValue(c) ==
    CASE c = "0" -> 0 [] c = "1" -> 1 [] c = "2" -> 2 [] c = "3" -> 3
      [] c = "4" -> 4 [] c = "5" -> 5 [] c = "6" -> 6 [] c = "7" -> 7
      [] c = "8" -> 8 [] c = "9" -> 9
      [] OTHER ->
            (CHOOSE k \in 1..10 :
                \E r \in 1..Len(UNICODE_DIGITS) : UNICODE_DIGITS[r][k] = c) - 1

IsDigitAt(s, i) == i >= 1 /\ i <= Len(s) /\ s[i] \in DIGITS
IsCharAt(s, i, c) == i >= 1 /\ i <= Len(s) /\ s[i] = c
IsSpaceAt(s, i) == i >= 1 /\ i <= Len(s) /\ s[i] \in WHITESPACE
\* a character class of ASCII characters, [0-5] or [1-9], at s[i]
IsOneOfAt(s, i, class) == i >= 1 /\ i <= Len(s) /\ s[i] \in class

\* the null character, which also ends the bytes of a str in C
NUL == "U+0000"

\* s[i], the null character past the end
CharAt(s, i) == IF i >= 1 /\ i <= Len(s) THEN s[i] ELSE NUL

HEX == {"0", "1", "2", "3", "4", "5", "6", "7", "8", "9", "A", "B", "C", "D", "E", "F"}

\* U+0080 to U+00FF
LATIN1_SUPPLEMENT ==
    {"", "", "", "", "", "", "", "", "", "", "", "", "", "",
     "", "", "", "", "", "", "", "", "", "", "", "", "", "",
     "", "", "", "", " ", "¡", "¢", "£", "¤", "¥", "¦", "§", "¨", "©",
     "ª", "«", "¬", "­", "®", "¯", "°", "±", "²", "³", "´", "µ", "¶", "·",
     "¸", "¹", "º", "»", "¼", "½", "¾", "¿", "À", "Á", "Â", "Ã", "Ä", "Å",
     "Æ", "Ç", "È", "É", "Ê", "Ë", "Ì", "Í", "Î", "Ï", "Ð", "Ñ", "Ò", "Ó",
     "Ô", "Õ", "Ö", "×", "Ø", "Ù", "Ú", "Û", "Ü", "Ý", "Þ", "ß", "à", "á",
     "â", "ã", "ä", "å", "æ", "ç", "è", "é", "ê", "ë", "ì", "í", "î", "ï",
     "ð", "ñ", "ò", "ó", "ô", "õ", "ö", "÷", "ø", "ù", "ú", "û", "ü", "ý",
     "þ", "ÿ"}

\* U+0100 to U+07FF
TWO_BYTES == {"U+0" \o h \o x \o y : h \in {"1", "2", "3", "4", "5", "6", "7"}, x \in HEX, y \in HEX}

\* U+D800 to U+DFFF: the surrogates, which a str can hold and UTF-8 cannot
SURROGATES ==
    {"U+D" \o h \o x \o y : h \in {"8", "9", "A", "B", "C", "D", "E", "F"}, x \in HEX, y \in HEX}

\* U+DC80 to U+DCFF: the surrogates that stand for one undecodable byte each
\* in a file name (the surrogateescape error handler)
ESCAPED_BYTES ==
    {"U+DC" \o x \o y : x \in {"8", "9", "A", "B", "C", "D", "E", "F"}, y \in HEX}

IsSurrogate(c) == Len(c) = 6 /\ c \in SURROGATES

\* the number of bytes of the character c in UTF-8
Utf8Len(c) ==
    IF c \in {NUL, "U+0060"} THEN 1
    ELSE IF Len(c) = 1 THEN (IF c \in LATIN1_SUPPLEMENT THEN 2 ELSE 1)
    ELSE IF c \in TWO_BYTES THEN 2
    ELSE IF Len(c) = 6 THEN 3 ELSE 4

\* str.encode("utf-8") raises UnicodeEncodeError on a surrogate
Encodable(s) == \A i \in 1..Len(s) : ~IsSurrogate(s[i])

\* int() of the digits s[i..j]
RECURSIVE IntOf(_, _, _)
IntOf(s, i, j) ==
    IF j < i THEN 0 ELSE 10 * IntOf(s, i, j - 1) + DigitValue(s[j])

\* s[i..j] as a str (empty when j < i)
Slice(s, i, j) == IF j < i THEN <<>> ELSE SubSeq(s, i, j)

(***************************************************************************)
(* datetime                                                                *)
(***************************************************************************)
IsLeap(y) == (y % 4 = 0) /\ ((y % 100 # 0) \/ (y % 400 = 0))

DaysInMonth(y, m) ==
    IF m = 2 THEN (IF IsLeap(y) THEN 29 ELSE 28)
    ELSE IF m \in {4, 6, 9, 11} THEN 30 ELSE 31

\* days before the first of month m in year y
RECURSIVE DaysBeforeMonth(_, _)
DaysBeforeMonth(y, m) ==
    IF m <= 1 THEN 0 ELSE DaysBeforeMonth(y, m - 1) + DaysInMonth(y, m - 1)

\* date.toordinal(): 0001-01-01 is day 1
Ordinal(y, m, d) ==
    LET p == y - 1
    IN  p * 365 + (p \div 4) - (p \div 100) + (p \div 400)
        + DaysBeforeMonth(y, m) + d

\* ord_to_ymd: <<year, month, day>> of a day number. Below day 1 the
\* arithmetic of the C code leaves year 1 and a month below 1.
OrdToYmd(ordinal) ==
    IF ordinal < 1 THEN <<1, 0, 0>>
    ELSE LET o == ordinal - 1
             n400 == o \div 146097
             r400 == o % 146097
             n100 == r400 \div 36524
             r100 == r400 % 36524
             n4 == r100 \div 1461
             r4 == r100 % 1461
             n1 == r4 \div 365
             n == r4 % 365
             y == n400 * 400 + 1 + n100 * 100 + n4 * 4 + n1
         IN  IF n1 = 4 \/ n100 = 4 THEN <<y - 1, 12, 31>>
             ELSE LET estimate == (n + 50) \div 32
                      preceding == DaysBeforeMonth(y, estimate)
                  IN  IF preceding > n
                      THEN <<y, estimate - 1,
                             n - (preceding - DaysInMonth(y, estimate - 1)) + 1>>
                      ELSE <<y, estimate, n - preceding + 1>>

\* The datetime constructor's range checks (ValueError otherwise).
ValidDateTime(y, m, d, H, M, S) ==
    /\ y >= 1 /\ y <= 9999
    /\ m >= 1 /\ m <= 12
    /\ d >= 1 /\ d <= DaysInMonth(y, m)
    /\ H >= 0 /\ H <= 23
    /\ M >= 0 /\ M <= 59
    /\ S >= 0 /\ S <= 59

\* The ValueError of the first range check that fails, in the constructor's
\* order, NoException when all hold. A year is four digits, or 10000 from
\* the last week of 9999.
RangeError(y, m, d, H, M, S) ==
    IF y < 1 THEN "ValueError: year 0 is out of range"
    ELSE IF y > 9999 THEN "ValueError: year 10000 is out of range"
    ELSE IF m < 1 \/ m > 12 THEN "ValueError: month must be in 1..12"
    ELSE IF d < 1 \/ d > DaysInMonth(y, m) THEN "ValueError: day is out of range for month"
    ELSE IF H < 0 \/ H > 23 THEN "ValueError: hour must be in 0..23"
    ELSE IF M < 0 \/ M > 59 THEN "ValueError: minute must be in 0..59"
    ELSE IF S < 0 \/ S > 59 THEN "ValueError: second must be in 0..59"
    ELSE NoException

DateTime(y, m, d, H, M, S, us, tz) ==
    [year |-> y, month |-> m, day |-> d, hour |-> H, minute |-> M,
     second |-> S, microsecond |-> us, tzinfo |-> tz]

\* datetime.date()
DateOf(dt) == [year |-> dt.year, month |-> dt.month, day |-> dt.day]

IsAware(dt) == dt.tzinfo # <<>>

\* The instant of a datetime as <<days, seconds, microseconds>>, seconds in
\* 0..86399: an aware value is shifted to UTC, a naive one is taken as is.
Instant(dt) ==
    LET off == IF IsAware(dt) THEN dt.tzinfo ELSE <<0, 0>>
        borrow == IF dt.microsecond < off[2] THEN 1 ELSE 0
        secs == dt.hour * 3600 + dt.minute * 60 + dt.second - off[1] - borrow
        carry == IF secs < 0 THEN -1 ELSE IF secs >= 86400 THEN 1 ELSE 0
    IN  <<Ordinal(dt.year, dt.month, dt.day) + carry,
          secs - carry * 86400, dt.microsecond - off[2] + borrow * 1000000>>

\* a < b on datetimes of the same awareness
DateTimeLess(a, b) ==
    LET x == Instant(a)
        y == Instant(b)
    IN  \/ x[1] < y[1]
        \/ x[1] = y[1] /\ x[2] < y[2]
        \/ x[1] = y[1] /\ x[2] = y[2] /\ x[3] < y[3]

\* a < b raises TypeError when exactly one of a, b is naive
Comparable(a, b) == IsAware(a) = IsAware(b)

\* b - a: a timedelta, normalised to whole seconds and 0..999999 microseconds
TimeDelta(a, b) ==
    LET x == Instant(a)
        y == Instant(b)
        s == (y[1] - x[1]) * 86400 + (y[2] - x[2])
        u == y[3] - x[3]
    IN  IF u < 0 THEN [seconds |-> s - 1, microseconds |-> u + 1000000]
        ELSE [seconds |-> s, microseconds |-> u]

\* td.total_seconds() <= n
TotalSecondsAtMost(td, n) ==
    td.seconds < n \/ (td.seconds = n /\ td.microseconds = 0)

(***************************************************************************)
(* parse_text_log                                                          *)
(***************************************************************************)
\* \S+ at i: the index after the longest run of non-whitespace from i
RunEnd(s, i) ==
    IF i > Len(s) THEN i
    ELSE CHOOSE j \in i..(Len(s) + 1) :
             /\ j > Len(s) \/ s[j] \in WHITESPACE
             /\ \A k \in i..(j - 1) : s[k] \notin WHITESPACE

\* .+ at i: the index after the longest run of non-newline characters from i
DotEnd(s, i) ==
    IF i > Len(s) THEN i
    ELSE CHOOSE j \in i..(Len(s) + 1) :
             /\ j > Len(s) \/ s[j] = "\n"
             /\ \A k \in i..(j - 1) : s[k] # "\n"

\* "(\S+) " at i: the index after the blank that ends the token, 0 on failure.
\* \S+ is greedy and the character after the run is whitespace or the end, so
\* no shorter run can be followed by the blank: the match is deterministic.
TokenThenBlank(s, i) ==
    LET e == RunEnd(s, i)
    IN  IF i >= 1 /\ e > i /\ IsCharAt(s, e, " ") THEN e + 1 ELSE 0

\* The starts of the tokens of "(\S+ \S+) (\S+) (\S+) (\S+) " from the starts p
\* found so far; a start of 0 ends the list when a token or its blank is missing.
RECURSIVE TokenStarts(_, _)
TokenStarts(s, p) ==
    IF Len(p) = 6 \/ p[Len(p)] = 0 THEN p
    ELSE LET Rest(q) == TokenStarts(s, q)
         IN  Apply(Rest, Append(p, TokenThenBlank(s, p[Len(p)])))

\* the groups of a match whose tokens start at p[1..5] and whose (.+) is
\* s[p[6]..e - 1], None when the match failed
Groups(s, p, e) ==
    IF p[Len(p)] = 0 \/ e <= p[6] THEN None
    ELSE [g1 |-> Slice(s, 1, p[3] - 2),
          g2 |-> Slice(s, p[3], p[4] - 2),
          g3 |-> Slice(s, p[4], p[5] - 2),
          g4 |-> Slice(s, p[5], p[6] - 2),
          g5 |-> Slice(s, p[6], e - 1)]

\* re.match(r"(\S+ \S+) (\S+) (\S+) (\S+) (.+)", line): the groups, or None
ReMatch(line_) ==
    LET Matched(s) ==
            LET Grouped(p) ==
                    Groups(s, p, IF p[Len(p)] = 0 THEN 0 ELSE DotEnd(s, p[6]))
            IN  Apply(Grouped, TokenStarts(s, <<1>>))
    IN  Apply(Matched, line_)

\* One numeric directive of strptime at i: the number of characters its regex
\* alternation takes, trying the alternatives in order, 0 when none matches.
\* Every directive but %S is followed by a literal that is no digit, so a
\* shorter alternative tried on backtracking fails on the literal as well.
LenY(s, i) ==            \* \d\d\d\d
    IF \A k \in 0..3 : IsDigitAt(s, i + k) THEN 4 ELSE 0
Lenm(s, i) ==            \* 1[0-2]|0[1-9]|[1-9]
    IF IsCharAt(s, i, "1") /\ IsOneOfAt(s, i + 1, {"0", "1", "2"}) THEN 2
    ELSE IF IsCharAt(s, i, "0") /\ IsOneOfAt(s, i + 1, ASCII_DIGITS \ {"0"}) THEN 2
    ELSE IF IsOneOfAt(s, i, ASCII_DIGITS \ {"0"}) THEN 1
    ELSE 0
Lend(s, i) ==            \* 3[0-1]|[1-2]\d|0[1-9]|[1-9]| [1-9]
    IF IsCharAt(s, i, "3") /\ IsOneOfAt(s, i + 1, {"0", "1"}) THEN 2
    ELSE IF IsOneOfAt(s, i, {"1", "2"}) /\ IsDigitAt(s, i + 1) THEN 2
    ELSE IF IsCharAt(s, i, "0") /\ IsOneOfAt(s, i + 1, ASCII_DIGITS \ {"0"}) THEN 2
    ELSE IF IsOneOfAt(s, i, ASCII_DIGITS \ {"0"}) THEN 1
    ELSE IF IsCharAt(s, i, " ") /\ IsOneOfAt(s, i + 1, ASCII_DIGITS \ {"0"}) THEN 2
    ELSE 0
LenH(s, i) ==            \* 2[0-3]|[0-1]\d|\d
    IF IsCharAt(s, i, "2") /\ IsOneOfAt(s, i + 1, {"0", "1", "2", "3"}) THEN 2
    ELSE IF IsOneOfAt(s, i, {"0", "1"}) /\ IsDigitAt(s, i + 1) THEN 2
    ELSE IF IsDigitAt(s, i) THEN 1
    ELSE 0
LenM(s, i) ==            \* [0-5]\d|\d
    IF IsOneOfAt(s, i, {"0", "1", "2", "3", "4", "5"}) /\ IsDigitAt(s, i + 1) THEN 2
    ELSE IF IsDigitAt(s, i) THEN 1
    ELSE 0
LenS(s, i) ==            \* 6[0-1]|[0-5]\d|\d
    IF IsCharAt(s, i, "6") /\ IsOneOfAt(s, i + 1, {"0", "1"}) THEN 2
    ELSE LenM(s, i)

\* \s+ at i: the index after the run of whitespace, 0 when there is none
SpacesEnd(s, i) ==
    IF ~IsSpaceAt(s, i) THEN i
    ELSE CHOOSE j \in (i + 1)..(Len(s) + 1) :
             /\ j > Len(s) \/ s[j] \notin WHITESPACE
             /\ \A k \in i..(j - 1) : s[k] \in WHITESPACE
SkipSpaces(s, i) == IF IsSpaceAt(s, i) THEN SpacesEnd(s, i) ELSE 0

\* the day digits of a %d match (the alternative " [1-9]" starts with a blank)
DayValue(s, i, n) == IF s[i] = " " THEN IntOf(s, i + 1, i + 1) ELSE IntOf(s, i, i + n - 1)

\* "%Y-%m-%d %H:%M:%S" as strptime reads it: directives, literals, and a blank
\* that stands for \s+
StrptimeFormat == <<"Y", "-", "m", "-", "d", " ", "H", ":", "M", ":", "S">>

DirectiveLen(s, i, item) ==
    CASE item = "Y" -> LenY(s, i) [] item = "m" -> Lenm(s, i)
      [] item = "d" -> Lend(s, i) [] item = "H" -> LenH(s, i)
      [] item = "M" -> LenM(s, i) [] item = "S" -> LenS(s, i)

\* One item of the format matched at st.pos, st = [pos, values]; pos = 0 once
\* the match has failed.
StrptimeStep(s, item, st) ==
    IF st.pos = 0 THEN st
    ELSE IF item = " " THEN [st EXCEPT !.pos = SkipSpaces(s, st.pos)]
    ELSE IF item \in {"-", ":"}
    THEN [st EXCEPT !.pos = IF IsCharAt(s, st.pos, item) THEN st.pos + 1 ELSE 0]
    ELSE IF DirectiveLen(s, st.pos, item) = 0 THEN [st EXCEPT !.pos = 0]
    ELSE [pos |-> st.pos + DirectiveLen(s, st.pos, item),
          values |-> Append(st.values,
              IF item = "d" THEN DayValue(s, st.pos, DirectiveLen(s, st.pos, item))
              ELSE IntOf(s, st.pos, st.pos + DirectiveLen(s, st.pos, item) - 1))]

\* the items k.. of the format matched from the state st
RECURSIVE StrptimeFrom(_, _, _)
StrptimeFrom(s, k, st) ==
    IF k > Len(StrptimeFormat) THEN st
    ELSE LET Rest(next) == StrptimeFrom(s, k + 1, next)
         IN  Apply(Rest, StrptimeStep(s, StrptimeFormat[k], st))

\* the datetime of a finished match, None when data remains unconverted or a
\* value is out of range
StrptimeResult(s, st) ==
    IF st.pos = 0 \/ st.pos # Len(s) + 1 THEN None
    ELSE IF ValidDateTime(st.values[1], st.values[2], st.values[3],
                          st.values[4], st.values[5], st.values[6])
    THEN DateTime(st.values[1], st.values[2], st.values[3],
                  st.values[4], st.values[5], st.values[6], 0, <<>>)
    ELSE None

\* datetime.strptime(s, "%Y-%m-%d %H:%M:%S"): the datetime, or None for the
\* ValueError (no match, unconverted data, or a value out of range).
Strptime(s) ==
    LET Result(st) == StrptimeResult(s, st)
    IN  Apply(Result, StrptimeFrom(s, 1, [pos |-> 1, values |-> <<>>]))

\* the dict parse_text_log returns for the groups and their timestamp
ParsedRecord(match, timestamp) ==
    [timestamp |-> timestamp,
     level |-> match.g2,
     service |-> match.g3,
     host |-> match.g4,
     message |-> match.g5]

\* parse_text_log without its try/except: the ValueError of strptime escapes
parse_text_log_Unguarded(ln) ==
    LET Parsed(match) ==
            IF match = None THEN None
            ELSE LET Built(timestamp) ==
                         IF timestamp = None THEN [raised |-> "ValueError"]
                         ELSE ParsedRecord(match, timestamp)
                 IN  Apply(Built, Strptime(match.g1))
    IN  Apply(Parsed, ReMatch(ln))

parse_text_log(ln) ==
    LET Parsed(match) ==
            IF match = None THEN None
            ELSE LET Built(timestamp) ==
                         IF timestamp = None THEN None
                         ELSE ParsedRecord(match, timestamp)
                 IN  Apply(Built, Strptime(match.g1))
    IN  Apply(Parsed, ReMatch(ln))

(***************************************************************************)
(* Outcomes of a call: a returned value or a raised exception              *)
(***************************************************************************)
Return(v) == [returned |-> v]
Raise(e) == [raised |-> e]
Raised(o) == "raised" \in DOMAIN o
Returned(o) == "returned" \in DOMAIN o

ERROR == <<"E", "R", "R", "O", "R">>

(***************************************************************************)
(* filter_logs                                                             *)
(***************************************************************************)
\* the condition of the comprehension, as Python evaluates it: not x or ...
FilterKeep(log, svc, hst) ==
    /\ (~Truthy(svc) \/ log.service = svc)
    /\ (~Truthy(hst) \/ log.host = hst)

\* log["service"] or log["host"] is looked up and the key is missing
FilterKeyError(log, svc, hst) ==
    \/ Truthy(svc) /\ "service" \notin DOMAIN log
    \/ /\ (~Truthy(svc) \/ log.service = svc)
       /\ Truthy(hst) /\ "host" \notin DOMAIN log

\* filter_logs with "or" between the two conditions in place of "and"
filter_logs_Or(lg, svc, hst) ==
    Return(SelectSeq(lg, LAMBDA log :
        \/ (~Truthy(svc) \/ log.service = svc)
        \/ (~Truthy(hst) \/ log.host = hst)))

filter_logs(lg, svc, hst) ==
    IF \E i \in 1..Len(lg) : FilterKeyError(lg[i], svc, hst)
    THEN Raise("KeyError")
    ELSE Return(SelectSeq(lg, LAMBDA log : FilterKeep(log, svc, hst)))

(***************************************************************************)
(* detect_burst_errors                                                     *)
(***************************************************************************)
BurstSize == 5
BurstSeconds == 60

\* [log["timestamp"] for log in logs if log["level"] == "ERROR"]
ErrorTimes(lg) ==
    LET errors == SelectSeq(lg, LAMBDA log : log.level = ERROR)
    IN  [i \in 1..Len(errors) |-> errors[i].timestamp]

\* the comprehension looks up a missing key
ErrorTimesKeyError(lg) ==
    \E i \in 1..Len(lg) :
        \/ "level" \notin DOMAIN lg[i]
        \/ lg[i].level = ERROR /\ "timestamp" \notin DOMAIN lg[i]

\* The place of ts[i] in sorted(ts): behind the elements smaller than it and
\* behind the equal ones that come before it (the sort is stable).
SortRank(ts, i) ==
    1 + Cardinality({j \in 1..Len(ts) :
                        \/ DateTimeLess(ts[j], ts[i])
                        \/ j < i /\ ~DateTimeLess(ts[i], ts[j])})

\* sorted(ts): stable, ascending
Sorted(ts) ==
    LET Placed(rank) ==
            [r \in 1..Len(rank) |-> ts[CHOOSE i \in 1..Len(rank) : rank[i] = r]]
    IN  Apply(Placed, [i \in 1..Len(ts) |-> SortRank(ts, i)])

\* sorted(ts) raises TypeError: the sort compares every element with a
\* neighbour or with the run sorted so far, so any mix of naive and aware
\* values among two or more elements meets a comparison that raises.
SortTypeError(ts) ==
    \E i, j \in 1..Len(ts) : ~Comparable(ts[i], ts[j])

\* for i in range(len(error_times) - 4): the windows error_times[i:i+5] whose
\* last and first element lie at most 60 seconds apart, by ascending i
Bursts(ts) ==
    LET starts == SelectSeq([i \in 1..(Len(ts) - (BurstSize - 1)) |-> i],
                     LAMBDA i : TotalSecondsAtMost(
                                    TimeDelta(ts[i], ts[i + BurstSize - 1]), BurstSeconds))
    IN  [n \in 1..Len(starts) |-> SubSeq(ts, starts[n], starts[n] + BurstSize - 1)]

detect_burst_errors(lg) ==
    IF ErrorTimesKeyError(lg) THEN Raise("KeyError")
    ELSE LET Detected(error_times) ==
                 IF SortTypeError(error_times) THEN Raise("TypeError")
                 ELSE LET Windows(sorted) == Return(Bursts(sorted))
                      IN  Apply(Windows, Sorted(error_times))
         IN  Apply(Detected, ErrorTimes(lg))

(***************************************************************************)
(* detect_long_running_issues                                              *)
(***************************************************************************)
\* The defaultdict(set) after the loop over logs: error_days[msg].add(day)
\* for every ERROR record, a key per message seen.
ErrorDays(lg) ==
    LET errors == {i \in 1..Len(lg) : lg[i].level = ERROR}
    IN  [msg \in {lg[i].message : i \in errors} |->
            {DateOf(lg[i].timestamp) : i \in {e \in errors : lg[e].message = msg}}]

ErrorDaysKeyError(lg) ==
    \E i \in 1..Len(lg) :
        \/ "level" \notin DOMAIN lg[i]
        \/ lg[i].level = ERROR /\ {"message", "timestamp"} \ DOMAIN lg[i] # {}

\* detect_long_running_issues keeping every message with at least one day
detect_long_running_issues_AnyDay(lg) ==
    LET error_days == ErrorDays(lg)
    IN  Return([msg \in {m \in DOMAIN error_days : Cardinality(error_days[m]) > 0}
                    |-> error_days[msg]])

detect_long_running_issues(lg) ==
    IF ErrorDaysKeyError(lg) THEN Raise("KeyError")
    ELSE LET error_days == ErrorDays(lg)
         IN  Return([msg \in {m \in DOMAIN error_days : Cardinality(error_days[m]) > 1}
                         |-> error_days[msg]])

(***************************************************************************)
(* Specification SpecParse: parse_text_log applied to one line             *)
(***************************************************************************)
\* The lines tried: <date><separator><time><tail>, and a few whole lines.
DateTokens ==
    { <<"2", "0", "2", "5", "-", "0", "1", "-", "0", "1">>,
      <<"2", "0", "2", "5", "-", "0", "1", "-", "0", "2">>,
      <<"2", "0", "2", "5", "-", "1", "-", "1">>,
      <<"0", "1", "-", "0", "1", "-", "2", "0", "2", "5">>,
      <<"2", "0", "2", "5", "-", "1", "3", "-", "0", "1">>,
      <<"2", "0", "2", "5", "-", "0", "2", "-", "3", "0">>,
      <<"0", "0", "0", "0", "-", "0", "1", "-", "0", "1">>,
      <<"U+0662", "U+0660", "U+0662", "U+0665", "-", "0", "1", "-", "1", "U+0663">>,
      <<"2", "0", "2", "5", "-", "0", "U+0661", "-", "0", "1">>,
      <<"2", "0", "2", "5", "-", "0", "1", "-", "U+FF11">> }
TimeTokens ==
    { <<"1", "0", ":", "0", "0", ":", "0", "0">>,
      <<"9", ":", "5", ":", "3">>,
      <<"1", "0", ":", "0", "0">>,
      <<"2", "4", ":", "0", "0", ":", "0", "0">>,
      <<"1", "0", ":", "0", "0", ":", "6", "0">>,
      <<"1", "0", ":", "0", "0", ":", "0", "0", "0">>,
      <<"1", "U+0663", ":", "U+0665", ":", "0", "U+FF13">>,
      <<"2", "U+0663", ":", "0", "0", ":", "0", "0">> }
Separators ==
    { <<" ">>,
      <<"\t">>,
      <<" ", " ">>,
      <<"">>,
      <<"U+3000">> }
Tails ==
    { <<" ", "E", "R", "R", "O", "R", " ", "p", "a", "y", " ", "h", "1", " ", "F", "a", "i", "l">>,
      <<" ", "E", "R", "R", "O", "R", " ", "p", "a", "y", " ", "h", "1", " ", "F", "a", "i", "l", " ", "x">>,
      <<" ", "E", "R", "R", "O", "R", " ", "p", "a", "y", " ", "h", "1">>,
      <<" ", "E", "R", "R", "O", "R", " ", "p", "a", "y", " ", "h", "1", " ">>,
      <<" ", "E", "R", "R", "O", "R", " ", " ", "p", "a", "y", " ", "h", "1", " ", "F", "a", "i", "l">>,
      <<>>,
      <<" ", "E", "R", "R", "O", "R", " ", "p", "a", "y", " ", "h", "1", " ", "F", "a", "i", "l", "\n", "x">>,
      <<" ", "E", "R", "R", "O", "R", " ", "p", "a", "y", " ", "x", " ", "h", "1", " ", "F", "a", "i", "l">> }
WholeLines ==
    { <<>>,
      <<"I", "N", "V", "A", "L", "I", "D", " ", "L", "I", "N", "E">>,
      <<" ", "2", "0", "2", "5", "-", "0", "1", "-", "0", "1", " ", "1", "0", ":", "0", "0", ":", "0", "0", " ", "E", "R", "R", "O", "R", " ", "p", "a", "y", " ", "h", "1", " ", "F", "a", "i", "l">> }

Lines ==
    { d \o p \o t \o r : d \in DateTokens, p \in Separators,
                         t \in TimeTokens, r \in Tails } \cup WholeLines

parseVars == <<line, parsed>>
stageVars == <<logs, service, host, filtered, bursts, issues>>
loadVars == <<json_path, log_path, files, io, loaded, written, uncaught>>

NoParse == line = <<>> /\ parsed = None
NoStage ==
    /\ logs = <<>> /\ service = NoneStr /\ host = NoneStr
    /\ filtered = None /\ bursts = None /\ issues = None
NoLoad ==
    /\ json_path = NoneStr /\ log_path = NoneStr /\ files = <<>>
    /\ io = <<>> /\ loaded = None /\ written = <<>> /\ uncaught = NoException

InitParse ==
    /\ pc = "parse_text_log"
    /\ line \in Lines
    /\ parsed = None
    /\ NoStage /\ NoLoad

ParseTextLog ==
    /\ pc = "parse_text_log"
    /\ parsed' = parse_text_log(line)
    /\ pc' = "returned"
    /\ UNCHANGED <<line, stageVars, loadVars>>

NextParse == ParseTextLog

SpecParse == InitParse /\ [][NextParse]_vars

(***************************************************************************)
(* read_logs                                                               *)
(***************************************************************************)
\* datetime.fromisoformat, as the C code of the datetime module reads the
\* UTF-8 bytes of its argument: positions below are those of characters, which
\* are those of bytes as long as the characters before them are ASCII.
InvalidInput == "ValueError: At least one input file must be provided"
InvalidIsoFormat == "ValueError: Invalid isoformat string"
InvalidOffset == "ValueError: offset must be a timedelta strictly between -timedelta(hours=24) and timedelta(hours=24)"

RECURSIVE Pow10(_)
Pow10(n) == IF n = 0 THEN 1 ELSE 10 * Pow10(n - 1)

\* the index after the run of ASCII digits from i
RunEndDigits(s, i) ==
    IF ~IsOneOfAt(s, i, ASCII_DIGITS) THEN i
    ELSE CHOOSE j \in (i + 1)..(Len(s) + 1) :
             /\ j > Len(s) \/ s[j] \notin ASCII_DIGITS
             /\ \A k \in i..(j - 1) : s[k] \in ASCII_DIGITS

\* parse_digits: the value of the n ASCII digits s[p..p+n-1], -1 when one of
\* them is no ASCII digit
ParseDigits(s, p, n) ==
    IF \A k \in p..(p + n - 1) : IsOneOfAt(s, k, ASCII_DIGITS)
    THEN IntOf(s, p, p + n - 1) ELSE -1

\* _sanitize_isoformat_str: the first surrogate among the three places a
\* separator can take becomes "T"
SanitizeIsoFormat(s) ==
    LET places == {i \in {8, 9, 11} : i <= Len(s) /\ IsSurrogate(s[i])}
    IN  IF places = {} THEN s
        ELSE [s EXCEPT ![CHOOSE i \in places : \A j \in places : i <= j] = "T"]

\* _find_isoformat_datetime_separator on a str of seven characters or more:
\* the number of characters of the date, 0 for a str it gives up on
FindIsoFormatDatetimeSeparator(s) ==
    LET n == Len(s)
    IN  IF n = 7 THEN 7
        ELSE IF s[5] = "-"
        THEN IF s[6] = "W"
             THEN IF n > 8 /\ s[9] = "-"
                  THEN IF n = 9 THEN 0
                       ELSE IF n > 10 /\ s[11] \in ASCII_DIGITS THEN 8 ELSE 10
                  ELSE 8
             ELSE 10
        ELSE IF s[5] = "W"
        THEN LET idx == RunEndDigits(s, 8) - 1
             IN  IF idx < 9 THEN idx ELSE IF idx % 2 = 0 THEN 7 ELSE 8
        ELSE 8

\* iso_to_ymd: <<year, month, day>> of day iso_day of week iso_week of
\* iso_year, <<>> for a week or a day that does not exist. (For year 0 the
\* truncating division of the C code and the floor taken here agree on the
\* Monday of week 1, day -363.)
IsoToYmd(iso_year, iso_week, iso_day) ==
    LET first_day == Ordinal(iso_year, 1, 1)
        first_weekday == (first_day + 6) % 7
        week1_monday == first_day - first_weekday
                            + (IF first_weekday > 3 THEN 7 ELSE 0)
        long_year == first_weekday = 3 \/ (first_weekday = 2 /\ IsLeap(iso_year))
    IN  IF (iso_week <= 0 \/ iso_week >= 53) /\ ~(iso_week = 53 /\ iso_year >= 1 /\ long_year)
        THEN <<>>
        ELSE IF iso_day <= 0 \/ iso_day >= 8 THEN <<>>
        ELSE OrdToYmd(week1_monday + (iso_week - 1) * 7 + iso_day - 1)

\* parse_isoformat_date on the first len characters: <<year, month, day>>,
\* <<>> for a failure. The forms are YYYY-MM-DD, YYYYMMDD, YYYY-Www[-D] and
\* YYYYWww[D].
ParseIsoFormatDate(s, len) ==
    LET year == ParseDigits(s, 1, 4)
        uses_separator == CharAt(s, 5) = "-"
        p == IF uses_separator THEN 6 ELSE 5
    IN  IF year < 0 THEN <<>>
        ELSE IF CharAt(s, p) = "W"
        THEN LET iso_week == ParseDigits(s, p + 1, 2)
                 has_day == p + 2 < len
                 d == IF uses_separator THEN p + 4 ELSE p + 3
                 iso_day == IF has_day THEN ParseDigits(s, d, 1) ELSE 1
             IN  IF \/ iso_week < 0
                    \/ has_day /\ uses_separator /\ CharAt(s, p + 3) # "-"
                    \/ iso_day < 0
                 THEN <<>>
                 ELSE IsoToYmd(year, iso_week, iso_day)
        ELSE LET month == ParseDigits(s, p, 2)
                 d == IF uses_separator THEN p + 3 ELSE p + 2
                 day == ParseDigits(s, d, 2)
             IN  IF \/ month < 0
                    \/ uses_separator /\ CharAt(s, p + 2) # "-"
                    \/ day < 0
                 THEN <<>>
                 ELSE <<year, month, day>>

\* What parse_hh_mm_ss_ff hands back: rv is 0 when the text ended with the last
\* field, 1 when more text follows, and -1 for a failure.
NoFields == [rv |-> -1]
Fields(rv, vals, us) ==
    [rv |-> rv,
     hour |-> IF Len(vals) >= 1 THEN vals[1] ELSE 0,
     minute |-> IF Len(vals) >= 2 THEN vals[2] ELSE 0,
     second |-> IF Len(vals) >= 3 THEN vals[3] ELSE 0,
     microsecond |-> us]

\* The fraction of parse_hh_mm_ss_ff from s[p]: the digits up to end, six of
\* them at most, are the microseconds, and further digits are passed over.
Fraction(s, p, end, vals) ==
    LET to_parse == IF end - p >= 6 THEN 6 ELSE end - p
        us == ParseDigits(s, p, to_parse)
    IN  IF us < 0 THEN NoFields
        ELSE Fields(IF CharAt(s, RunEndDigits(s, p + to_parse)) # NUL THEN 1 ELSE 0,
                    vals, us * Pow10(6 - to_parse))

\* The loop of parse_hh_mm_ss_ff at field i (0 the hour) from s[p], end being
\* the index after the text: two digits, then the character c after them
\* decides. The pointer passes c by one byte, so that a c of several bytes
\* never ends the text.
RECURSIVE FieldsFrom(_, _, _, _, _, _)
FieldsFrom(s, p, end, i, has_separator, vals) ==
    LET v == ParseDigits(s, p, 2)
        c == CharAt(s, p + 2)
        separated == IF i = 0 THEN c = ":" ELSE has_separator
        now == Append(vals, v)
    IN  IF v < 0 THEN NoFields
        ELSE IF Utf8Len(c) = 1 /\ p + 3 >= end
        THEN Fields(IF c # NUL THEN 1 ELSE 0, now, 0)
        ELSE IF separated /\ c = ":"
        THEN IF i = 2 THEN Fraction(s, p + 3, end, now)
             ELSE FieldsFrom(s, p + 3, end, i + 1, separated, now)
        ELSE IF c \in {".", ","} THEN Fraction(s, p + 3, end, now)
        ELSE IF ~separated
        THEN IF i = 2 THEN Fraction(s, p + 2, end, now)
             ELSE FieldsFrom(s, p + 2, end, i + 1, separated, now)
        ELSE NoFields

\* parse_hh_mm_ss_ff on s[start..end-1]: HH[[:]MM[[:]SS[(.|,)f+]]]
ParseHhMmSsFf(s, start, end) == FieldsFrom(s, start, end, 0, TRUE, <<>>)

\* parse_isoformat_time on s[start..]: the fields of the time up to the first
\* "Z", "+" or "-", then the offset, which is "Z" at the end or a sign and
\* fields of its own. rv is 0 without an offset, 1 with one, -1 for a failure;
\* text left between the time and an offset is not looked at.
ParseIsoFormatTime(s, start) ==
    LET marks == {i \in start..Len(s) : s[i] \in {"Z", "+", "-"}}
        tzinfo_pos == IF marks = {} THEN Len(s) + 1
                      ELSE CHOOSE i \in marks : \A j \in marks : i <= j
        Timed(t) ==
            IF t.rv < 0 THEN NoFields
            ELSE IF marks = {}
            THEN IF t.rv = 1 THEN NoFields
                 ELSE [rv |-> 0, time |-> t, tzoffset |-> 0, tzmicrosecond |-> 0]
            ELSE IF s[tzinfo_pos] = "Z"
            THEN IF CharAt(s, tzinfo_pos + 1) # NUL THEN NoFields
                 ELSE [rv |-> 1, time |-> t, tzoffset |-> 0, tzmicrosecond |-> 0]
            ELSE LET tzsign == IF s[tzinfo_pos] = "-" THEN -1 ELSE 1
                     Zoned(z) ==
                         IF z.rv # 0 THEN NoFields
                         ELSE [rv |-> 1, time |-> t,
                               tzoffset |-> tzsign * (z.hour * 3600 + z.minute * 60 + z.second),
                               tzmicrosecond |-> tzsign * z.microsecond]
                 IN  Apply(Zoned, ParseHhMmSsFf(s, tzinfo_pos + 1, Len(s) + 1))
    IN  Apply(Timed, ParseHhMmSsFf(s, start, tzinfo_pos))

\* tzinfo_from_isoformat_results: no tzinfo without an offset, UTC for an
\* offset of zero seconds, else timezone(timedelta(seconds, microseconds)),
\* which must lie strictly between -24 and 24 hours.
TzinfoFromIsoFormatResults(rv, tzoffset, tzmicrosecond) ==
    IF rv = 0 THEN Return(<<>>)
    ELSE IF tzoffset = 0 THEN Return(<<0, 0>>)
    ELSE LET seconds == IF tzmicrosecond < 0 THEN tzoffset - 1 ELSE tzoffset
             microseconds == IF tzmicrosecond < 0 THEN tzmicrosecond + 1000000
                             ELSE tzmicrosecond
         IN  IF /\ seconds > -86400 \/ (seconds = -86400 /\ microseconds > 0)
                /\ seconds < 86400
             THEN Return(<<seconds, microseconds>>)
             ELSE Raise(InvalidOffset)

\* datetime.fromisoformat(date_string): the datetime returned or the
\* ValueError raised
FromIsoFormat(date_string) ==
    IF Len(date_string) < 7 THEN Raise(InvalidIsoFormat)
    ELSE LET Decoded(s) ==
                 LET separator_location == FindIsoFormatDatetimeSeparator(s)
                     Dated(date) ==
                         IF date = <<>> THEN Raise(InvalidIsoFormat)
                         ELSE LET Built(t) ==
                                      IF t.rv < 0 THEN Raise(InvalidIsoFormat)
                                      ELSE LET tzinfo == TzinfoFromIsoFormatResults(
                                                            t.rv, t.tzoffset, t.tzmicrosecond)
                                               error == RangeError(date[1], date[2], date[3],
                                                            t.time.hour, t.time.minute, t.time.second)
                                           IN  IF Raised(tzinfo) THEN tzinfo
                                               ELSE IF error # NoException THEN Raise(error)
                                               ELSE Return(DateTime(date[1], date[2], date[3],
                                                        t.time.hour, t.time.minute, t.time.second,
                                                        t.time.microsecond, tzinfo.returned))
                              IN  IF Len(s) > separator_location
                                  THEN Apply(Built, ParseIsoFormatTime(s, separator_location + 2))
                                  ELSE Built([rv |-> 0, time |-> Fields(0, <<>>, 0),
                                              tzoffset |-> 0, tzmicrosecond |-> 0])
                 IN  IF ~Encodable(s) \/ separator_location = 0 THEN Raise(InvalidIsoFormat)
                     ELSE Apply(Dated, ParseIsoFormatDate(s, separator_location))
         IN  Apply(Decoded, SanitizeIsoFormat(date_string))

\* str.strip(): leading and trailing whitespace removed
StripLeft(s) ==
    IF \A i \in 1..Len(s) : s[i] \in WHITESPACE THEN <<>>
    ELSE SubSeq(s, CHOOSE i \in 1..Len(s) :
                       /\ s[i] \notin WHITESPACE
                       /\ \A k \in 1..(i - 1) : s[k] \in WHITESPACE,
                Len(s))
StripRight(s) ==
    IF \A i \in 1..Len(s) : s[i] \in WHITESPACE THEN <<>>
    ELSE SubSeq(s, 1, Len(s) - (CHOOSE n \in 0..(Len(s) - 1) :
                                   /\ s[Len(s) - n] \notin WHITESPACE
                                   /\ \A k \in 0..(n - 1) : s[Len(s) - k] \in WHITESPACE))
Strip(s) == StripRight(StripLeft(s))

\* One I/O step of read_logs on a path.
Event(op, path) == [op |-> op, path |-> path]

\* read_logs without the existence check
PathExists_Unchecked(path, fs) == TRUE

\* os.path.exists(path)
PathExists(path, fs) == path \in DOMAIN fs

\* open(path): the content, or FileNotFoundError
OpenFile(path, fs) ==
    IF path \in DOMAIN fs THEN Return(fs[path])
    ELSE Raise("FileNotFoundError")

\* The body of the loop over json_logs for one entry: the entry with its
\* timestamp decoded, or the KeyError of the missing key, or the ValueError of
\* fromisoformat.
DecodeEntry(log) ==
    IF "timestamp" \notin DOMAIN log THEN Raise("KeyError")
    ELSE LET Put(timestamp) ==
                 IF Raised(timestamp) THEN timestamp
                 ELSE Return([log EXCEPT !.timestamp = timestamp.returned])
         IN  Apply(Put, FromIsoFormat(log.timestamp))

\* the loop over json_logs with an undecodable entry dropped, not raised
DecodeEntries_SkipBad(entries, done) ==
    LET Looped(decoded) ==
            LET kept == SelectSeq(decoded, LAMBDA entry : Returned(entry))
            IN  IF \E i \in 1..Len(decoded) : decoded[i] = Raise("KeyError")
                THEN Raise("KeyError")
                ELSE Return(done \o [i \in 1..Len(kept) |-> kept[i].returned])
    IN  Apply(Looped, [i \in 1..Len(entries) |-> DecodeEntry(entries[i])])

\* The loop over json_logs from the list done so far: each entry has its
\* timestamp decoded in place and is appended; the first entry that raises
\* ends the loop with its exception.
DecodeEntries(entries, done) ==
    LET Looped(decoded) ==
            LET failed == {i \in 1..Len(decoded) : Raised(decoded[i])}
            IN  IF failed = {}
                THEN Return(done \o [i \in 1..Len(decoded) |-> decoded[i].returned])
                ELSE decoded[CHOOSE i \in failed : \A j \in failed : i <= j]
    IN  Apply(Looped, [i \in 1..Len(entries) |-> DecodeEntry(entries[i])])

\* the loop over the lines without its "if parsed": a None per rejected line
ParseLines_KeepNone(lines, done) ==
    done \o [i \in 1..Len(lines) |-> parse_text_log(Strip(lines[i]))]

\* The loop over the lines of the text file from the list done so far: the
\* records of the lines that parse_text_log accepts once stripped, in order.
ParseLines(lines, done) ==
    done \o SelectSeq([i \in 1..Len(lines) |-> parse_text_log(Strip(lines[i]))],
                      LAMBDA parsed_line : parsed_line # None)

\* "or" in place of "and" in the validation
NoInputGiven_Or(jp, lp) == ~Truthy(jp) \/ ~Truthy(lp)

\* not json_path and not log_path
NoInputGiven(jp, lp) == ~Truthy(jp) /\ ~Truthy(lp)

\* The JSON part of read_logs: [result, io], result the outcome so far.
ReadJsonLogs(jp, fs) ==
    IF ~Truthy(jp) THEN [result |-> Return(<<>>), io |-> <<>>]
    ELSE IF ~PathExists(jp, fs)
    THEN [result |-> Return(<<>>),
          io |-> <<Event("exists", jp), Event("warning", jp)>>]
    ELSE IF Raised(OpenFile(jp, fs))
    THEN [result |-> OpenFile(jp, fs),
          io |-> <<Event("exists", jp), Event("open", jp)>>]
    ELSE [result |-> DecodeEntries(OpenFile(jp, fs).returned, <<>>),
          io |-> <<Event("exists", jp), Event("open", jp), Event("read", jp)>>]

\* The text part of read_logs, from the list the JSON part left.
ReadTextLogs(lp, fs, done) ==
    IF ~Truthy(lp) THEN [result |-> Return(done), io |-> <<>>]
    ELSE IF ~PathExists(lp, fs)
    THEN [result |-> Return(done),
          io |-> <<Event("exists", lp), Event("warning", lp)>>]
    ELSE IF Raised(OpenFile(lp, fs))
    THEN [result |-> OpenFile(lp, fs),
          io |-> <<Event("exists", lp), Event("open", lp)>>]
    ELSE [result |-> Return(ParseLines(OpenFile(lp, fs).returned, done)),
          io |-> <<Event("exists", lp), Event("open", lp), Event("read", lp)>>]

\* read_logs(json_path, log_path) on the file system fs: its outcome and the
\* I/O steps it performed, in order.
read_logs(jp, lp, fs) ==
    IF NoInputGiven(jp, lp) THEN [result |-> Raise(InvalidInput), io |-> <<>>]
    ELSE LET AfterJson(json_part) ==
                 IF Raised(json_part.result) THEN json_part
                 ELSE LET AfterText(text_part) ==
                              [result |-> text_part.result,
                               io |-> json_part.io \o text_part.io]
                      IN  Apply(AfterText,
                                ReadTextLogs(lp, fs, json_part.result.returned))
         IN  Apply(AfterJson, ReadJsonLogs(jp, fs))

(***************************************************************************)
(* Records and bounded lists of records                                    *)
(***************************************************************************)
INFO == <<"I", "N", "F", "O">>
PAY == <<"p", "a", "y">>
DB == <<"d", "b">>
H1 == <<"h", "1">>
H2 == <<"h", "2">>
FAIL == <<"F", "a", "i", "l">>
FAIL_LOWER == <<"f", "a", "i", "l">>
FAIL_BLANK == <<"F", "a", "i", "l", " ">>

Record(ts, lvl, svc, hst, msg) ==
    [timestamp |-> ts, level |-> lvl, service |-> svc, host |-> hst,
     message |-> msg]

\* the lists of at most n elements of S
ListsUpTo(S, n) == UNION {[1..k -> S] : k \in 0..n}

(***************************************************************************)
(* Specification SpecFilter: filter_logs applied to one list               *)
(***************************************************************************)
MaxFilterLogs == 3

FilterTime == DateTime(2025, 1, 1, 10, 0, 0, 0, <<>>)
FilterRecords ==
    { Record(FilterTime, ERROR, svc, hst, FAIL) :
        svc \in {PAY, DB, <<>>}, hst \in {H1, H2} }
FilterServices == {NoneStr, <<>>, PAY, DB}
FilterHosts == {NoneStr, <<>>, H1}

InitFilter ==
    /\ pc = "filter_logs"
    /\ logs \in ListsUpTo(FilterRecords, MaxFilterLogs)
    /\ service \in FilterServices
    /\ host \in FilterHosts
    /\ filtered = None /\ bursts = None /\ issues = None
    /\ NoParse /\ NoLoad

FilterLogs ==
    /\ pc = "filter_logs"
    /\ filtered' = filter_logs(logs, service, host)
    /\ pc' = "returned"
    /\ UNCHANGED <<logs, service, host, bursts, issues, parseVars, loadVars>>

NextFilter == FilterLogs

SpecFilter == InitFilter /\ [][NextFilter]_vars

(***************************************************************************)
(* Specification SpecBurst: detect_burst_errors applied to one list        *)
(***************************************************************************)
MaxBurstLogs == 6

\* 10:00:00, 10:00:30, 10:01:00 and 10:01:00.5 of one day, naive, and 10:00:30
\* of the same day at UTC+00:00
BurstTimes ==
    { DateTime(2025, 1, 1, 10, 0, 0, 0, <<>>),
      DateTime(2025, 1, 1, 10, 0, 30, 0, <<>>),
      DateTime(2025, 1, 1, 10, 1, 0, 0, <<>>),
      DateTime(2025, 1, 1, 10, 1, 0, 500000, <<>>),
      DateTime(2025, 1, 1, 10, 0, 30, 0, <<0, 0>>) }
BurstRecords ==
    { Record(t, ERROR, PAY, H1, FAIL) : t \in BurstTimes }
    \cup { Record(DateTime(2025, 1, 1, 10, 0, 0, 0, <<>>), INFO, PAY, H1, FAIL) }

InitBurst ==
    /\ pc = "detect_burst_errors"
    /\ logs \in ListsUpTo(BurstRecords, MaxBurstLogs)
    /\ service = NoneStr /\ host = NoneStr
    /\ filtered = None /\ bursts = None /\ issues = None
    /\ NoParse /\ NoLoad

DetectBurstErrors ==
    /\ pc = "detect_burst_errors"
    /\ bursts' = detect_burst_errors(logs)
    /\ pc' = "returned"
    /\ UNCHANGED <<logs, service, host, filtered, issues, parseVars, loadVars>>

NextBurst == DetectBurstErrors

SpecBurst == InitBurst /\ [][NextBurst]_vars

(***************************************************************************)
(* Specification SpecRecur: detect_long_running_issues applied to one list *)
(***************************************************************************)
MaxRecurLogs == 4

\* two times of 2025-01-01, one of 2025-01-02, and 2025-01-02 00:30 at
\* UTC+01:00, which is 2025-01-01 23:30 in UTC
RecurTimes ==
    { DateTime(2025, 1, 1, 10, 0, 0, 0, <<>>),
      DateTime(2025, 1, 1, 23, 59, 59, 0, <<>>),
      DateTime(2025, 1, 2, 0, 0, 0, 0, <<>>),
      DateTime(2025, 1, 2, 0, 30, 0, 0, <<3600, 0>>) }
RecurRecords ==
    { Record(t, ERROR, PAY, H1, m) : t \in RecurTimes, m \in {FAIL, FAIL_LOWER} }
    \cup { Record(DateTime(2025, 1, 2, 0, 0, 0, 0, <<>>), ERROR, PAY, H1, FAIL_BLANK),
           Record(DateTime(2025, 1, 2, 0, 0, 0, 0, <<>>), INFO, PAY, H1, FAIL),
           Record(DateTime(2025, 1, 2, 0, 0, 0, 0, <<>>), <<"e", "r", "r", "o", "r">>, PAY, H1, FAIL) }

InitRecur ==
    /\ pc = "detect_long_running_issues"
    /\ logs \in ListsUpTo(RecurRecords, MaxRecurLogs)
    /\ service = NoneStr /\ host = NoneStr
    /\ filtered = None /\ bursts = None /\ issues = None
    /\ NoParse /\ NoLoad

DetectLongRunningIssues ==
    /\ pc = "detect_long_running_issues"
    /\ issues' = detect_long_running_issues(logs)
    /\ pc' = "returned"
    /\ UNCHANGED <<logs, service, host, filtered, bursts, parseVars, loadVars>>

NextRecur == DetectLongRunningIssues

SpecRecur == InitRecur /\ [][NextRecur]_vars

(***************************************************************************)
(* The report writers, as far as main depends on them: the files they open *)
(* and the exceptions they raise. The output folder is taken to be new:    *)
(* it holds the files written and no folder; beside it, above it and at    *)
(* the root lies nothing that a level names but the files the run itself   *)
(* creates there; a file may be created wherever the folder exists; and    *)
(* the working directory lies deeper than any chain of ".." climbs, so     *)
(* that folders at different heights are different folders. A file is      *)
(* known by <<where, name>>, where the number of folders its folder lies   *)
(* above the output folder (0 in it, 1 in the working directory), -1 at    *)
(* the root.                                                               *)
(***************************************************************************)
DAILY_SUMMARY == <<"d", "a", "i", "l", "y", "_", "s", "u", "m", "m", "a", "r", "y", ".", "c", "s", "v">>
CSV == <<".", "c", "s", "v">>
\* the default of --out
OUT_DIR == <<"o", "u", "t", "p", "u", "t">>
\* the limits of the file system, in bytes: of a name, and of a path with the
\* byte that ends it
NAME_MAX == 255
PATH_MAX == 4096

\* write_daily_summary counts the records by date and level, then opens
\* daily_summary.csv and writes a row per date and level: [files, raised]
write_daily_summary(lg) ==
    IF \E i \in 1..Len(lg) : {"timestamp", "level"} \ DOMAIN lg[i] # {}
    THEN [files |-> <<>>, raised |-> "KeyError"]
    ELSE IF \E i \in 1..Len(lg) : ~Encodable(lg[i].level)
    THEN [files |-> <<DAILY_SUMMARY>>, raised |-> "UnicodeEncodeError"]
    ELSE [files |-> <<DAILY_SUMMARY>>, raised |-> NoException]

\* os.path.join(out_dir, name): a name that starts at the root stands alone
JoinPath(name) ==
    IF name # <<>> /\ name[1] = "/" THEN name ELSE OUT_DIR \o <<"/">> \o name

\* the bytes of a path in the file system encoding
PathBytes(path) ==
    Len(path)
      + Cardinality({i \in 1..Len(path) :
                        path[i] \notin ESCAPED_BYTES /\ Utf8Len(path[i]) >= 2})
      + Cardinality({i \in 1..Len(path) :
                        path[i] \notin ESCAPED_BYTES /\ Utf8Len(path[i]) >= 3})
      + Cardinality({i \in 1..Len(path) :
                        path[i] \notin ESCAPED_BYTES /\ Utf8Len(path[i]) = 4})

\* the indices of the "/" of a path: each ends the name of a folder
Slashes(path) == {q \in 1..Len(path) : path[q] = "/"}

\* the part of a path that ends before index q, back to the "/" before it
PartLen(path, q) ==
    CHOOSE k \in 0..(q - 1) :
        /\ \A m \in 1..k : path[q - m] # "/"
        /\ k = q - 1 \/ path[q - k - 1] = "/"
PathPart(path, q) == Slice(path, q - PartLen(path, q), q - 1)

\* a part that names an entry: not empty, not "." and not ".."
IsName(part) == part \notin {<<>>, <<".">>, <<".", ".">>}

\* Where the walk of a path stands before the part that ends at q, when every
\* folder named before exists: the number of folders above the output folder,
\* -1 on a path from the root (".." at the root stays there). A folder named
\* before can only be the output folder, named in the working directory, and
\* each ".." behind it climbs one folder.
Above(path, q, from_root) ==
    IF from_root THEN -1
    ELSE LET names == {r \in Slashes(path) : r < q /\ IsName(PathPart(path, r))}
             last == IF names = {} THEN 0
                     ELSE CHOOSE r \in names : \A x \in names : x <= r
             parents == Cardinality({r \in Slashes(path) :
                            last < r /\ r < q /\ PathPart(path, r) = <<".", ".">>})
         IN  IF last = 0 THEN 1 + parents ELSE parents

\* the error of the folder part that ends at q, NoException when the walk
\* passes it; existing holds the files there are
FolderError(path, q, from_root, existing) ==
    LET part == PathPart(path, q)
    IN  IF ~IsName(part) THEN NoException
        ELSE IF PathBytes(part) > NAME_MAX THEN "OSError"
        ELSE IF <<Above(path, q, from_root), part>> \in existing
        THEN "NotADirectoryError"
        ELSE IF Above(path, q, from_root) = 1 /\ part = OUT_DIR THEN NoException
        ELSE "FileNotFoundError"

\* The walk of open(path, "w"): [raised, created], raised the error of the
\* first part that fails, created the file made.
Lookup(path, from_root, existing) ==
    LET failed == {q \in Slashes(path) :
                      FolderError(path, q, from_root, existing) # NoException}
        file == PathPart(path, Len(path) + 1)
    IN  IF failed # {}
        THEN [raised |-> FolderError(path, CHOOSE q \in failed : \A x \in failed : q <= x,
                                     from_root, existing),
              created |-> {}]
        ELSE IF PathBytes(file) > NAME_MAX THEN [raised |-> "OSError", created |-> {}]
        ELSE [raised |-> NoException,
              created |-> {<<Above(path, Len(path) + 1, from_root), file>>}]

\* open(os.path.join(out_dir, name), "w", ...), existing the files there are
OpenForWriting(name, existing) ==
    IF \E i \in 1..Len(name) : IsSurrogate(name[i]) /\ name[i] \notin ESCAPED_BYTES
    THEN [raised |-> "UnicodeEncodeError", created |-> {}]
    ELSE IF \E i \in 1..Len(name) : name[i] = NUL
    THEN [raised |-> "ValueError: embedded null byte", created |-> {}]
    ELSE IF PathBytes(JoinPath(name)) >= PATH_MAX
    THEN [raised |-> "OSError", created |-> {}]
    ELSE Lookup(JoinPath(name), JoinPath(name) = name, existing)

\* The file of a level is opened at the first record of the level.
IsFirstOfLevel(lg, i) ==
    /\ "level" \in DOMAIN lg[i]
    /\ \A j \in 1..(i - 1) : "level" \in DOMAIN lg[j] => lg[j].level # lg[i].level

\* the files there are when record i is reached, every file before it having
\* been opened: those of the output folder before the call, and those created
FolderAt(lg, i, out_dir) ==
    {<<0, name>> : name \in out_dir}
        \cup UNION {OpenForWriting(lg[j].level \o CSV, {}).created :
                       j \in {k \in 1..(i - 1) : IsFirstOfLevel(lg, k)}}

\* What the loop of write_level_csv does at record i, the records before it
\* having passed: [raised, opened], opened telling whether it opened a file.
\* After the level is read and its file is there, a row needs the four other
\* keys and text that UTF-8 can encode.
LevelRow(lg, i, out_dir) ==
    LET log == lg[i]
        Written(f) ==
            IF f.raised # NoException THEN [raised |-> f.raised, opened |-> FALSE]
            ELSE [opened |-> f.isnew,
                  raised |->
                    IF {"timestamp", "service", "host", "message"} \ DOMAIN log # {}
                    THEN "KeyError"
                    ELSE IF \E key \in {"service", "host", "message"} : ~Encodable(log[key])
                    THEN "UnicodeEncodeError"
                    ELSE NoException]
    IN  IF "level" \notin DOMAIN log THEN [raised |-> "KeyError", opened |-> FALSE]
        ELSE IF ~IsFirstOfLevel(lg, i)
        THEN Written([raised |-> NoException, isnew |-> FALSE])
        ELSE Apply(Written, [isnew |-> TRUE]
                               @@ OpenForWriting(log.level \o CSV, FolderAt(lg, i, out_dir)))

\* write_level_csv(logs, out_dir), out_dir given by the names of the files in
\* the output folder: [files, raised], the files opened in order and the
\* exception of the first record that raises
write_level_csv(lg, out_dir) ==
    LET Looped(rows) ==
            LET failed == {i \in 1..Len(rows) : rows[i].raised # NoException}
                last == IF failed = {} THEN Len(rows)
                        ELSE CHOOSE i \in failed : \A j \in failed : i <= j
                opened == SelectSeq([i \in 1..last |-> i], LAMBDA i : rows[i].opened)
            IN  [files |-> [n \in 1..Len(opened) |-> lg[opened[n]].level \o CSV],
                 raised |-> IF failed = {} THEN NoException ELSE rows[last].raised]
    IN  Apply(Looped, [i \in 1..Len(lg) |-> LevelRow(lg, i, out_dir)])

(***************************************************************************)
(* Specification Spec: main, one stage after the other                     *)
(***************************************************************************)
MaxJsonEntries == 2
MaxTextLines == 2

JSON_PATH == <<"a", "p", "p", ".", "j", "s", "o", "n">>
LOG_PATH == <<"a", "p", "p", ".", "l", "o", "g">>

\* The entries of the structured source: a naive, an aware and a fractional
\* timestamp, an undecodable one, an entry without its message and an entry
\* without its timestamp.
JsonEntries ==
    { [timestamp |-> <<"2", "0", "2", "5", "-", "0", "1", "-", "0", "1", "T", "1", "0", ":", "0", "0", ":", "0", "0">>,
       level |-> ERROR, service |-> PAY, host |-> H1, message |-> FAIL],
      [timestamp |-> <<"2", "0", "2", "5", "-", "0", "1", "-", "0", "1", "T", "1", "0", ":", "0", "0", ":", "3", "0", "+", "0", "0", ":", "0", "0">>,
       level |-> ERROR, service |-> DB, host |-> H1, message |-> FAIL],
      [timestamp |-> <<"2", "0", "2", "5", "-", "0", "1", "-", "0", "2", "T", "1", "0", ":", "0", "0", ":", "0", "0", ".", "5", "0", "0">>,
       level |-> INFO, service |-> PAY, host |-> H2, message |-> FAIL],
      [timestamp |-> <<"0", "1", "/", "0", "1", "/", "2", "0", "2", "5", " ", "1", "0", ":", "0", "0">>,
       level |-> ERROR, service |-> PAY, host |-> H1, message |-> FAIL],
      [timestamp |-> <<"2", "0", "2", "5", "-", "0", "1", "-", "0", "1", "T", "1", "0", ":", "0", "0", ":", "0", "0">>,
       level |-> ERROR, service |-> PAY, host |-> H1],
      [level |-> ERROR, service |-> PAY, host |-> H1, message |-> FAIL] }

\* The lines of the text source, each with its line end as the file iterator
\* yields it: a well-formed ERROR line, noise, a line without zero padding
\* between a vertical tab and an ideographic space, and a line with a timestamp
\* in another layout.
TextLines ==
    { <<"2", "0", "2", "5", "-", "0", "1", "-", "0", "1", " ", "1", "0", ":", "0", "0", ":", "0", "0", " ", "E", "R", "R", "O", "R", " ", "p", "a", "y", " ", "h", "1", " ", "F", "a", "i", "l", "\n">>,
      <<"I", "N", "V", "A", "L", "I", "D", " ", "L", "I", "N", "E", "\n">>,
      <<"", " ", "2", "0", "2", "5", "-", "0", "1", "-", "0", "2", " ", "9", ":", "5", ":", "3", " ", "E", "R", "R", "O", "R", " ", "d", "b", " ", "h", "2", " ", "F", "a", "i", "l", "U+3000", "\n">>,
      <<"0", "1", "-", "0", "1", "-", "2", "0", "2", "5", " ", "1", "0", ":", "0", "0", " ", "E", "R", "R", "O", "R", " ", "p", "a", "y", " ", "h", "1", " ", "F", "a", "i", "l", "\n">> }

PathArguments(path) == {NoneStr, <<>>, path}

\* The file system: only a path given to main may exist (what lies at other
\* paths is never looked at).
FileSystems(jp, lp) ==
    { [p \in (IF je THEN {JSON_PATH} ELSE {}) \cup (IF le THEN {LOG_PATH} ELSE {})
          |-> IF p = JSON_PATH THEN jc ELSE lc] :
        je \in {e \in BOOLEAN : e => jp = JSON_PATH},
        le \in {e \in BOOLEAN : e => lp = LOG_PATH},
        jc \in ListsUpTo(JsonEntries, MaxJsonEntries),
        lc \in ListsUpTo(TextLines, MaxTextLines) }

Init ==
    /\ pc = "read_logs"
    /\ json_path \in PathArguments(JSON_PATH)
    /\ log_path \in PathArguments(LOG_PATH)
    /\ files \in FileSystems(json_path, log_path)
    /\ io = <<>> /\ loaded = None /\ written = <<>> /\ uncaught = NoException
    /\ logs = <<>>
    /\ service \in {NoneStr, PAY}
    /\ host = NoneStr
    /\ filtered = None /\ bursts = None /\ issues = None
    /\ NoParse

\* logs = read_logs(args.json, args.log)
MainReadLogs ==
    /\ pc = "read_logs"
    /\ \E call \in {read_logs(json_path, log_path, files)} :
           /\ io' = call.io
           /\ loaded' = call.result
           /\ IF Raised(call.result)
              THEN /\ uncaught' = call.result.raised
                   /\ pc' = "aborted"
                   /\ logs' = logs
              ELSE /\ logs' = call.result.returned
                   /\ pc' = "filter_logs"
                   /\ uncaught' = uncaught
    /\ UNCHANGED <<json_path, log_path, files, written, service, host,
                   filtered, bursts, issues, parseVars>>

\* logs = filter_logs(logs, service=args.service, host=args.host)
MainFilterLogs ==
    /\ pc = "filter_logs"
    /\ filtered' = filter_logs(logs, service, host)
    /\ IF Raised(filtered')
       THEN /\ uncaught' = filtered'.raised
            /\ pc' = "aborted"
            /\ logs' = logs
       ELSE /\ logs' = filtered'.returned
            /\ pc' = "write_daily_summary"
            /\ uncaught' = uncaught
    /\ UNCHANGED <<json_path, log_path, files, io, loaded, written, service,
                   host, bursts, issues, parseVars>>

\* write_daily_summary(logs, args.out)
MainWriteDailySummary ==
    /\ pc = "write_daily_summary"
    /\ LET call == write_daily_summary(logs)
       IN  /\ written' = written \o call.files
           /\ uncaught' = call.raised
           /\ pc' = IF call.raised # NoException THEN "aborted" ELSE "write_level_csv"
    /\ UNCHANGED <<json_path, log_path, files, io, loaded, logs, service, host,
                   filtered, bursts, issues, parseVars>>

\* write_level_csv(logs, args.out)
MainWriteLevelCsv ==
    /\ pc = "write_level_csv"
    /\ LET call == write_level_csv(logs, {written[k] : k \in 1..Len(written)})
       IN  /\ written' = written \o call.files
           /\ uncaught' = call.raised
           /\ pc' = IF call.raised # NoException THEN "aborted" ELSE "detect_burst_errors"
    /\ UNCHANGED <<json_path, log_path, files, io, loaded, logs, service, host,
                   filtered, bursts, issues, parseVars>>

\* bursts = detect_burst_errors(logs)
MainDetectBurstErrors ==
    /\ pc = "detect_burst_errors"
    /\ bursts' = detect_burst_errors(logs)
    /\ IF Raised(bursts')
       THEN uncaught' = bursts'.raised /\ pc' = "aborted"
       ELSE uncaught' = uncaught /\ pc' = "detect_long_running_issues"
    /\ UNCHANGED <<json_path, log_path, files, io, loaded, written, logs,
                   service, host, filtered, issues, parseVars>>

\* issues = detect_long_running_issues(logs)
MainDetectLongRunningIssues ==
    /\ pc = "detect_long_running_issues"
    /\ issues' = detect_long_running_issues(logs)
    /\ IF Raised(issues')
       THEN uncaught' = issues'.raised /\ pc' = "aborted"
       ELSE uncaught' = uncaught /\ pc' = "finished"
    /\ UNCHANGED <<json_path, log_path, files, io, loaded, written, logs,
                   service, host, filtered, bursts, parseVars>>

Next ==
    \/ MainReadLogs
    \/ MainFilterLogs
    \/ MainWriteDailySummary
    \/ MainWriteLevelCsv
    \/ MainDetectBurstErrors
    \/ MainDetectLongRunningIssues

Spec == Init /\ [][Next]_vars

(***************************************************************************)
(* Claim C3: filter_logs                                                   *)
(***************************************************************************)
\* the k-th smallest element of the set K of indices
Nth(K, k) == CHOOSE i \in K : Cardinality({j \in K : j <= i}) = k

\* the elements of lg at the indices K, in their order in lg
SubsequenceAt(lg, K) == [k \in 1..Cardinality(K) |-> lg[Nth(K, k)]]

\* the indices of the records that match every supplied predicate
Matching(lg, svc, hst, Supplied(_)) ==
    { i \in 1..Len(lg) :
        /\ Supplied(svc) => lg[i].service = svc
        /\ Supplied(hst) => lg[i].host = hst }

IsAnyString(x) == x # NoneStr
IsNonEmptyString(x) == x # NoneStr /\ Len(x) > 0

\* C3 as stated: filter_logs returns exactly the records, in their order and
\* with duplicates, whose service equals the supplied service and whose host
\* equals the supplied host, whatever string is supplied (the empty string
\* included), and the input when neither is supplied.
C3_AsStated ==
    pc = "returned" =>
        filtered = Return(SubsequenceAt(logs,
                              Matching(logs, service, host, IsAnyString)))

\* C3 amended: filter_logs returns exactly the records, in their order and with
\* duplicates, that match every predicate supplied as a non-empty string; None
\* and the empty string both count as not supplied, and with neither predicate
\* supplied the result equals the input. The input list is never modified.
C3_Filter ==
    /\ [](pc = "returned" =>
            /\ filtered = Return(SubsequenceAt(logs,
                              Matching(logs, service, host, IsNonEmptyString)))
            /\ (~IsNonEmptyString(service) /\ ~IsNonEmptyString(host))
                    => filtered = Return(logs))
    /\ [][logs' = logs]_vars

\* C3 witness: both predicates supplied, a duplicated record kept twice and
\* another record dropped.
C3_Witness ==
    /\ pc = "returned"
    /\ IsNonEmptyString(service) /\ IsNonEmptyString(host)
    /\ Returned(filtered)
    /\ Len(filtered.returned) = 2
    /\ filtered.returned[1] = filtered.returned[2]
    /\ Len(logs) = 3
    /\ logs[2] \notin {filtered.returned[k] : k \in 1..2}

(***************************************************************************)
(* Claim C1: detect_burst_errors                                           *)
(***************************************************************************)
\* ts is ascending and holds the elements of us, each as often as us does
IsAscendingSortOf(ts, us) ==
    /\ Len(ts) = Len(us)
    /\ \A x \in {us[i] : i \in 1..Len(us)} :
          Cardinality({i \in 1..Len(ts) : ts[i] = x})
              = Cardinality({i \in 1..Len(us) : us[i] = x})
    /\ \A i, j \in 1..Len(ts) : i < j => ~DateTimeLess(ts[j], ts[i])

\* the start indices (from 1) of the windows of 5 whose span is at most 60 s
BurstStarts(ts) ==
    { i \in 1..(Len(ts) - 4) :
        TotalSecondsAtMost(TimeDelta(ts[i], ts[i + 4]), 60) }

\* the windows the claim describes, in increasing order of start index
ClaimedWindows(ts) ==
    [k \in 1..Cardinality(BurstStarts(ts)) |->
        LET i == Nth(BurstStarts(ts), k) IN SubSeq(ts, i, i + 4)]

\* the timestamps of the records whose level is exactly "ERROR", in list order
ErrorTimestamps(lg) ==
    LET K == {i \in 1..Len(lg) : lg[i].level = ERROR}
    IN  [k \in 1..Cardinality(K) |-> lg[Nth(K, k)].timestamp]

AllComparable(lg) ==
    \A i, j \in 1..Len(ErrorTimestamps(lg)) :
        Comparable(ErrorTimestamps(lg)[i], ErrorTimestamps(lg)[j])

\* C1: for any list of records detect_burst_errors returns, in increasing order
\* of start index, exactly the 5-element windows of the ascending sort of the
\* ERROR timestamps whose span is at most 60 seconds, overlapping ones
\* included, and the empty list when there are fewer than 5 ERROR records.
C1_AsStated ==
    pc = "returned" =>
        /\ Returned(bursts)
        /\ Len(ErrorTimestamps(logs)) < 5 => bursts.returned = <<>>
        /\ AllComparable(logs) =>
              /\ IsAscendingSortOf(Sorted(ErrorTimestamps(logs)),
                                   ErrorTimestamps(logs))
              /\ bursts.returned = ClaimedWindows(Sorted(ErrorTimestamps(logs)))

\* The contract of C1 on the lists whose ERROR timestamps are all naive or all
\* aware, and what happens on the others.
BurstContractWhenComparable ==
    pc = "returned" =>
        IF AllComparable(logs)
        THEN /\ Returned(bursts)
             /\ Len(ErrorTimestamps(logs)) < 5 => bursts.returned = <<>>
             /\ IsAscendingSortOf(Sorted(ErrorTimestamps(logs)),
                                  ErrorTimestamps(logs))
             /\ bursts.returned = ClaimedWindows(Sorted(ErrorTimestamps(logs)))
        ELSE bursts = Raise("TypeError")

\* two overlapping windows are both reported, out of an unsorted list
OverlappingBurstsReached ==
    /\ pc = "returned"
    /\ Returned(bursts)
    /\ Len(bursts.returned) = 2
    /\ bursts.returned[1] # bursts.returned[2]
    /\ ErrorTimestamps(logs) # Sorted(ErrorTimestamps(logs))

(***************************************************************************)
(* Claim C2: detect_long_running_issues                                    *)
(***************************************************************************)
\* the calendar dates of the ERROR records of lg whose message is m
ErrorDates(lg, m) ==
    { DateOf(lg[i].timestamp) :
        i \in {k \in 1..Len(lg) : lg[k].level = ERROR /\ lg[k].message = m} }

Messages(lg) == {lg[i].message : i \in 1..Len(lg)}

\* C2: detect_long_running_issues returns the mapping whose keys are exactly
\* the messages whose ERROR records fall on more than one calendar date, each
\* mapped to exactly the set of those dates; a message on a single date and
\* the records of another level contribute nothing.
C2_Recurring ==
    pc = "returned" =>
        /\ Returned(issues)
        /\ DOMAIN issues.returned
              = {m \in Messages(logs) : Cardinality(ErrorDates(logs, m)) > 1}
        /\ \A m \in DOMAIN issues.returned :
              issues.returned[m] = ErrorDates(logs, m)

\* C2 witness: one message is reported with its two dates while another, seen
\* twice on one date, is absent.
C2_Witness ==
    /\ pc = "returned"
    /\ Returned(issues)
    /\ \E m \in DOMAIN issues.returned : Cardinality(issues.returned[m]) = 2
    /\ \E m \in Messages(logs) \ DOMAIN issues.returned :
          Cardinality({i \in 1..Len(logs) :
              logs[i].level = ERROR /\ logs[i].message = m}) = 2

(***************************************************************************)
(* Claim C4: what parse_text_log rejects                                   *)
(***************************************************************************)
\* the first whitespace character of s at or after i, 0 when there is none
FirstWs(s, i) ==
    IF \E k \in i..Len(s) : s[k] \in WHITESPACE
    THEN CHOOSE k \in i..Len(s) :
            s[k] \in WHITESPACE /\ \A j \in i..(k - 1) : s[j] \notin WHITESPACE
    ELSE 0

\* the first five whitespace characters of s found from the positions b, a 0
\* ending the list when there are fewer
RECURSIVE WsPositions(_, _)
WsPositions(s, b) ==
    IF Len(b) = 5 \/ (b # <<>> /\ b[Len(b)] = 0) THEN b
    ELSE LET Rest(q) == WsPositions(s, q)
         IN  Apply(Rest, Append(b, FirstWs(s, IF b = <<>> THEN 1 ELSE b[Len(b)] + 1)))

\* The positions of the five blanks of "<date> <time> <level> <service> <host>
\* <message>": the first five whitespace characters of s, or <<>> when s has
\* not this shape (a token is empty, a separator is no blank, or no message).
Blanks(s) ==
    LET Shape(b) ==
            IF /\ b[Len(b)] # 0
               /\ \A k \in 1..5 : s[b[k]] = " "
               /\ b[1] > 1
               /\ \A k \in 1..4 : b[k + 1] > b[k] + 1
               /\ b[5] < Len(s)
               /\ s[b[5] + 1] # "\n"
            THEN b ELSE <<>>
    IN  Apply(Shape, WsPositions(s, <<>>))

HasShape(s) == Blanks(s) # <<>>

\* s has the shape and its date token d and time token t satisfy Accepts
Timestamped(s, Accepts(_, _)) ==
    \E b \in {Blanks(s)} :
        /\ b # <<>>
        /\ \E d \in {SubSeq(s, 1, b[1] - 1)} :
              \E t \in {SubSeq(s, b[1] + 1, b[2] - 1)} : Accepts(d, t)

\* t is three runs of decimal digits separated by the character c, of the given
\* lengths
ThreeNumbers(t, c, lens1, lens2, lens3) ==
    \E a, b \in 1..Len(t) :
        /\ a < b
        /\ {k \in 1..Len(t) : t[k] = c} = {a, b}
        /\ \A k \in (1..Len(t)) \ {a, b} : t[k] \in DIGITS
        /\ (a - 1) \in lens1 /\ (b - a - 1) \in lens2 /\ (Len(t) - b) \in lens3

\* the first and the last position of the character c in t
FirstSep(t, c) == CHOOSE k \in 1..Len(t) : t[k] = c /\ \A j \in 1..(k - 1) : t[j] # c
LastSep(t, c) == CHOOSE k \in 1..Len(t) : t[k] = c /\ \A j \in (k + 1)..Len(t) : t[j] # c

\* the n-th of the three numbers of t
Part(t, c, n) ==
    IF n = 1 THEN IntOf(t, 1, FirstSep(t, c) - 1)
    ELSE IF n = 2 THEN IntOf(t, FirstSep(t, c) + 1, LastSep(t, c) - 1)
    ELSE IntOf(t, LastSep(t, c) + 1, Len(t))

\* The digits of the field t[i..j], of one or two digits, are ASCII digits,
\* but for a digit that stands alone when alone holds, and for a second digit
\* that follows one of the digits of after.
FieldDigits(t, i, j, alone, after) ==
    IF j = i THEN alone \/ t[i] \in ASCII_DIGITS
    ELSE t[i] \in ASCII_DIGITS /\ (t[j] \in ASCII_DIGITS \/ t[i] \in after)

\* Where a decimal digit outside ASCII is read: anywhere in the year, as the
\* one digit of an hour, minute or second, and as the second digit of a day
\* after 1 or 2, of an hour after 0 or 1, of a minute or second after 0 to 5.
DigitScripts(d, t) ==
    /\ FieldDigits(d, FirstSep(d, "-") + 1, LastSep(d, "-") - 1, FALSE, {})
    /\ FieldDigits(d, LastSep(d, "-") + 1, Len(d), FALSE, {"1", "2"})
    /\ FieldDigits(t, 1, FirstSep(t, ":") - 1, TRUE, {"0", "1"})
    /\ FieldDigits(t, FirstSep(t, ":") + 1, LastSep(t, ":") - 1, TRUE,
                   {"0", "1", "2", "3", "4", "5"})
    /\ FieldDigits(t, LastSep(t, ":") + 1, Len(t), TRUE,
                   {"0", "1", "2", "3", "4", "5"})

\* the layout YYYY-MM-DD HH:MM:SS, zero-padded
StrictLayout(d, t) ==
    /\ ThreeNumbers(d, "-", {4}, {2}, {2})
    /\ ThreeNumbers(t, ":", {2}, {2}, {2})

\* the layout strptime accepts: zero padding is optional after the year
LenientLayout(d, t) ==
    /\ ThreeNumbers(d, "-", {4}, {1, 2}, {1, 2})
    /\ ThreeNumbers(t, ":", {1, 2}, {1, 2}, {1, 2})

\* the six numbers denote a date of the calendar and a time of the day
DenotesDateTime(d, t) ==
    /\ Part(d, "-", 1) >= 1
    /\ Part(d, "-", 2) \in 1..12
    /\ Part(d, "-", 3) \in 1..DaysInMonth(Part(d, "-", 1), Part(d, "-", 2))
    /\ Part(t, ":", 1) \in 0..23
    /\ Part(t, ":", 2) \in 0..59
    /\ Part(t, ":", 3) \in 0..59

WellFormedStrict(s) ==
    LET Strict(d, t) == StrictLayout(d, t) /\ DenotesDateTime(d, t)
    IN  Timestamped(s, Strict)
WellFormedLenient(s) ==
    LET Lenient(d, t) ==
            LenientLayout(d, t) /\ DigitScripts(d, t) /\ DenotesDateTime(d, t)
    IN  Timestamped(s, Lenient)

\* C4 as stated: parse_text_log returns None for every line that has not the
\* six-part shape or whose timestamp is not in the zero-padded layout
\* YYYY-MM-DD HH:MM:SS.
C4_AsStated ==
    (pc = "returned" /\ ~WellFormedStrict(line)) => parsed = None

\* C4 amended: parse_text_log returns None (no exception, no partial record)
\* for every line that has not the six-part shape, its tokens being runs of
\* characters that are no whitespace (str.isspace) each followed by one blank,
\* and for every line whose timestamp is not a four-digit year and a month,
\* day, hour, minute and second of one or two digits each (zero padding
\* optional) that denote a date of the calendar and a time of the day, a digit
\* outside ASCII counting only where DigitScripts admits it.
C4_RejectsMalformed ==
    (pc = "returned" /\ ~WellFormedLenient(line)) => parsed = None

\* C4 witness: a line of the right shape with an impossible timestamp was
\* rejected.
C4_Witness ==
    /\ pc = "returned"
    /\ HasShape(line)
    /\ ~WellFormedLenient(line)
    /\ parsed = None

\* The rejection is exact: every line the amended claim does not cover yields a
\* record holding the five groups.
ParseAcceptsWellFormed ==
    (pc = "returned" /\ WellFormedLenient(line)) =>
        /\ parsed # None
        /\ DOMAIN parsed = {"timestamp", "level", "service", "host", "message"}

(***************************************************************************)
(* Claims C5 to C10: read_logs and main, under Spec                        *)
(***************************************************************************)
\* read_logs has been called
Called == pc # "read_logs"

NoSourceSupplied == ~Truthy(json_path) /\ ~Truthy(log_path)
JsonExists == Truthy(json_path) /\ json_path \in DOMAIN files
LogExists == Truthy(log_path) /\ log_path \in DOMAIN files
JsonMissing == Truthy(json_path) /\ json_path \notin DOMAIN files
LogMissing == Truthy(log_path) /\ log_path \notin DOMAIN files

\* the entries of the structured source and the lines of the text source
JsonContent == IF JsonExists THEN files[json_path] ELSE <<>>
LogContent == IF LogExists THEN files[log_path] ELSE <<>>

\* what fromisoformat makes of the timestamp of each entry a structured source
\* may hold
DecodedTimestamp ==
    [entry \in {e \in JsonEntries : "timestamp" \in DOMAIN e} |->
        FromIsoFormat(entry.timestamp)]

\* the entry has a timestamp that cannot be decoded
Undecodable(entry) ==
    "timestamp" \in DOMAIN entry /\ Raised(DecodedTimestamp[entry])
JsonUndecodable ==
    \E i \in 1..Len(JsonContent) : Undecodable(JsonContent[i])

\* reading the structured source raises: an entry has no timestamp or one that
\* cannot be decoded
Unreadable(entry) == "timestamp" \notin DOMAIN entry \/ Undecodable(entry)
JsonUnreadable ==
    \E i \in 1..Len(JsonContent) : Unreadable(JsonContent[i])

\* the entries of the structured source, each with its timestamp decoded
JsonRecords ==
    [i \in 1..Len(JsonContent) |->
        [JsonContent[i] EXCEPT !.timestamp = DecodedTimestamp[JsonContent[i]].returned]]

\* the lines a text source may hold that have the six-part shape and an
\* accepted timestamp once stripped, and the record of each
WellFormedLines ==
    {text \in TextLines :
        \E stripped \in {Strip(text)} : WellFormedLenient(stripped)}
RecordOfLine == [text \in WellFormedLines |-> parse_text_log(Strip(text))]

\* the lines of the text source that are so, and their records in file order
ParseableLines ==
    {i \in 1..Len(LogContent) : LogContent[i] \in WellFormedLines}
TextRecords ==
    LET RecordsOf(K) ==
            [k \in 1..Cardinality(K) |-> RecordOfLine[LogContent[Nth(K, k)]]]
    IN  Apply(RecordsOf, ParseableLines)

EventsOn(path) == {k \in 1..Len(io) : io[k].path = path}
WarningsOn(path) ==
    Cardinality({k \in EventsOn(path) : io[k].op = "warning"})
ReadFrom(path) == \E k \in EventsOn(path) : io[k].op \in {"open", "read"}

RecordKeys == {"timestamp", "level", "service", "host", "message"}
IsDateTime(v) ==
    DOMAIN v = {"year", "month", "day", "hour", "minute", "second",
                "microsecond", "tzinfo"}

\* C5: every record read_logs returns, from either source, has the five fields
\* populated and a decoded timestamp; an entry that cannot yield such a record
\* yields none.
C5_AsStated ==
    (Called /\ Returned(loaded)) =>
        \A i \in 1..Len(loaded.returned) :
            /\ RecordKeys \subseteq DOMAIN loaded.returned[i]
            /\ IsDateTime(loaded.returned[i].timestamp)

\* C6: with both sources present read_logs returns the structured entries in
\* their order followed by one record per parseable text line in file order,
\* not re-sorted; a text line that does not parse adds no record, raises no
\* error and emits no warning, so the length is the number of entries plus the
\* number of parseable lines.
C6_SourceThenLineOrder ==
    (Called /\ JsonExists /\ LogExists) =>
        /\ Raised(loaded) => JsonUnreadable
        /\ Returned(loaded) =>
              /\ loaded.returned = JsonRecords \o TextRecords
              /\ Len(loaded.returned)
                    = Len(JsonContent) + Cardinality(ParseableLines)
              /\ WarningsOn(json_path) = 0 /\ WarningsOn(log_path) = 0

\* C6 witness: an entry dated after the text record that follows it, and a
\* line of noise that was dropped.
C6_Witness ==
    /\ Called /\ JsonExists /\ LogExists /\ Returned(loaded)
    /\ Len(JsonContent) >= 1
    /\ Cardinality(ParseableLines) = 1
    /\ Len(LogContent) = 2
    /\ Len(loaded.returned) = Len(JsonContent) + 1
    /\ DateTimeLess(loaded.returned[Len(loaded.returned)].timestamp,
                    loaded.returned[1].timestamp)

\* C7: with neither source supplied read_logs raises the invalid-input error
\* before any I/O step and returns nothing; with a source supplied that error
\* never occurs.
C7_InvalidInput ==
    Called =>
        /\ NoSourceSupplied =>
              /\ loaded = Raise(InvalidInput)
              /\ io = <<>>
              /\ logs = <<>>
        /\ ~NoSourceSupplied => loaded # Raise(InvalidInput)

\* C7 witness: read_logs was called with an empty string and None.
C7_Witness ==
    /\ Called /\ NoSourceSupplied
    /\ json_path = <<>> /\ log_path = NoneStr
    /\ loaded = Raise(InvalidInput)

\* what C8 says of a missing source at path, the other source holding others
MissingIsSkipped(path, others) ==
    /\ WarningsOn(path) = 1
    /\ ~ReadFrom(path)
    /\ loaded = Return(others)

\* C8 as stated: a supplied source that does not exist gets one warning, is
\* not read, and read_logs does not fail but loads every record of the other
\* source, whichever of the two is missing.
C8_AsStated ==
    Called =>
        /\ JsonMissing => MissingIsSkipped(json_path, TextRecords)
        /\ LogMissing => MissingIsSkipped(log_path, JsonRecords)

\* C8 amended: as stated, unless the structured source exists and reading it
\* raises, on an entry without a timestamp or with one that cannot be decoded:
\* read_logs then raises that error before it looks at the text source, so the
\* missing text source gets no warning and nothing is returned.
C8_MissingSourceSkipped ==
    Called =>
        /\ JsonMissing => MissingIsSkipped(json_path, TextRecords)
        /\ LogMissing =>
              IF JsonUnreadable
              THEN Raised(loaded) /\ EventsOn(log_path) = {} /\ logs = <<>>
              ELSE MissingIsSkipped(log_path, JsonRecords)

\* C8 witness: the text source is missing and the entries of the structured
\* source were loaded.
C8_Witness ==
    /\ Called /\ LogMissing /\ JsonExists
    /\ WarningsOn(log_path) = 1
    /\ Returned(loaded)
    /\ Len(loaded.returned) = 2

\* C9: an undecodable timestamp in the structured source makes read_logs raise:
\* it returns nothing, never touches the text source, and main ends there,
\* before the filter, the reports and the detectors. A text line never makes
\* read_logs fail.
C9_DecodeFailureIsFatal ==
    Called =>
        /\ JsonUndecodable =>
              /\ Raised(loaded)
              /\ EventsOn(log_path) = {}
              /\ pc = "aborted" /\ uncaught = loaded.raised
              /\ ~ENABLED Next
              /\ logs = <<>> /\ filtered = None /\ written = <<>>
              /\ bursts = None /\ issues = None
        /\ Raised(loaded) => (JsonUnreadable \/ NoSourceSupplied)

\* C9 witness: the second entry is undecodable, the first is not, and a text
\* source with a well-formed line exists.
C9_Witness ==
    /\ Called /\ JsonExists /\ LogExists
    /\ Len(JsonContent) = 2
    /\ ~Undecodable(JsonContent[1]) /\ Undecodable(JsonContent[2])
    /\ Cardinality(ParseableLines) >= 1
    /\ Raised(loaded)

\* C10: on every list read_logs returns, whatever well-formed timestamps the
\* structured entries carry, detect_burst_errors returns a list and raises
\* nothing.
C10_AsStated ==
    bursts # None => Returned(bursts)

====
